---- MODULE Spec2Model ----
(***************************************************************************)
(* fitnessmuse-server: the identity session lifecycle (register, login,    *)
(* rotate, logout, Session Guard), the account routes (update-account,     *)
(* change-password) and the trainer invitation state machine (invite,      *)
(* accept, list), as state machines over the persistence store.            *)
(*                                                                         *)
(* Every handler is cut at its awaits on the store: one action per store   *)
(* round trip, so that concurrent requests interleave exactly where the    *)
(* code suspends.  A JWT is the record of what jsonwebtoken signs: the     *)
(* secret, the payload and iat in whole seconds; two tokens signed for the *)
(* same payload with the same secret in the same second are equal.         *)
(***************************************************************************)
EXTENDS Integers, Sequences, FiniteSets, TLC

\* ------------------------------------------------------------------ bounds
MaxTime == 2
NReq == 2
MaxTokens == 2
MaxDay == 3

\* --------------------------------------------------- program configuration
AccessTTL == 1
RefreshTTL == 2
\* expiresAt.setDate(expiresAt.getDate() + 3)
InvitationDays == 3

\* the _ids the store hands out, in order
UserIds == {1, 2}
Reqs == 1..NReq

VARIABLES
    users,      \* the User collection: _id -> document, or NoDoc
    nextId,     \* the next _id the store allocates (never reused)
    now,        \* the clock, in the seconds jsonwebtoken counts
    req,        \* the requests in flight: slot -> the handler's position and locals
    resp,       \* the response sent by the last step, NoResp after a clock tick
    issued,     \* history: every token a 200 response has handed to a client
    track,      \* whether this behaviour keeps the two histories below
    spent,      \* history: every refresh token a successful rotate was presented
    loggedOut,  \* history: logoutUser has completed and no login has stored a token since
    acct,       \* the account requests in flight (register, update-account,
                \* change-password): slot -> position and locals
    gyms,       \* the Gym collection: _id -> document, or NoDoc
    trainers,   \* the Trainer collection, by its unique email: document, or NoDoc
    nextToken,  \* the next value crypto.randomBytes yields (never repeated)
    mails,      \* history: every invitation message handed to sendEmail
    inv,        \* the invite requests in flight: slot -> position and locals
    invResp,    \* the response sent by the last invite step, NoInvResp after a clock tick
    day,        \* the clock the invitation expiry is counted on, in days
    acpt,       \* the acceptances in flight: slot -> position and locals
    accResp,    \* the response sent by the last acceptance step
    listResp    \* the response getTrainersForGym sent last

inviteVars == <<gyms, trainers, nextToken, mails, inv, invResp, day, acpt, accResp, listResp>>

sessionVars == <<users, nextId, req, resp, issued, track, spent, loggedOut, acct>>

vars == <<users, nextId, now, req, resp, issued, track, spent, loggedOut, acct,
          gyms, trainers, nextToken, mails, inv, invResp, day, acpt, accResp, listResp>>

\* ------------------------------------------------------------------ values
NoDoc == [none |-> TRUE]
NoToken == [key |-> "NONE", sub |-> 0, iat |-> 0]
NoResp == [op |-> "none", status |-> 0, uid |-> 0, acc |-> NoToken, ref |-> NoToken, pres |-> NoToken,
           user |-> NoDoc]
Idle == [op |-> "idle", pc |-> "idle", uid |-> 0, pres |-> NoToken, mod |-> FALSE,
         acc |-> NoToken, ref |-> NoToken]

Exists(u) == u \in UserIds /\ users[u] # NoDoc

\* schema setters `lowercase: true, trim: true`, and username.toLowerCase()
Lower(s) ==
    CASE s = "Sam" -> "sam"
      [] s = "Kim@x.com" -> "kim@x.com"
      [] OTHER -> s

\* a plausible slip: the password is written by a path the pre-save hook is not on
HashSkipped(plain) == plain

\* bcrypt.hash / bcrypt.compare
Hash(plain) == <<"bcrypt", plain>>

\* a plausible slip: the comparison's result is not used
isPasswordCorrectAlways(doc, password) == TRUE

isPasswordCorrect(doc, password) == doc.password = Hash(password)

\* a plausible slip: the payload's _id is not the document's
generateAccessTokenWrongId(u, doc) ==
    [key |-> "ACCESS", sub |-> 1, iat |-> now, email |-> doc.email, username |-> doc.username]

\* jwt.sign of the access payload with ACCESS_TOKEN_SECRET
generateAccessToken(u, doc) ==
    [key |-> "ACCESS", sub |-> u, iat |-> now, email |-> doc.email, username |-> doc.username]

\* jwt.sign of {_id} with REFRESH_TOKEN_SECRET
generateRefreshToken(u, doc) == [key |-> "REFRESH", sub |-> u, iat |-> now]

TTL(secret) == IF secret = "ACCESS" THEN AccessTTL ELSE RefreshTTL

\* a plausible slip: one secret signs both classes of token
jwtVerifyOneSecret(tok, secret) ==
    tok.key \in {"ACCESS", "REFRESH"} /\ now < tok.iat + TTL(secret)

\* a plausible slip: verify with ignoreExpiration
jwtVerifyIgnoreExpiration(tok, secret) == tok.key = secret

\* jwt.verify(token, secret): the signature, then exp against the clock
jwtVerify(tok, secret) == tok.key = secret /\ now < tok.iat + TTL(secret)

\* a token naming the first principal, signed with a key that is none of the server's
ForgedToken == [key |-> "FORGED", sub |-> 1, iat |-> now]

\* what a client can put in a cookie, header or body
PresentedTokens == issued \cup {ForgedToken, NoToken}

\* User.findOne({$or: [{username}, {email}]}): the first match in insertion order
FindUser(username, email) ==
    LET hits == {u \in UserIds : Exists(u) /\ (users[u].username = Lower(username)
                                               \/ users[u].email = Lower(email))}
    IN IF hits = {} THEN 0 ELSE CHOOSE u \in hits : \A v \in hits : u <= v

\* a response without a user document in its body
Response(op, status, u, acc, ref, pres) ==
    [op |-> op, status |-> status, uid |-> u, acc |-> acc, ref |-> ref, pres |-> pres,
     user |-> NoDoc]

\* .select("-a -b"): the document without the excluded paths
Select(doc, excluded) == [f \in DOMAIN doc \ excluded |-> doc[f]]

\* .select("-password -refreshToken")
Public(doc) == Select(doc, {"password", "refreshToken"})

\* a response with a user document in its body
WithUser(response, doc) == [response EXCEPT !.user = doc]

Fail(op, status, pres) == Response(op, status, 0, NoToken, NoToken, pres)

\* no account request in the slot
AcctIdle == [op |-> "idle", pc |-> "idle", uid |-> 0, username |-> "", email |-> "",
             password |-> "", old |-> ""]

FreeAcct(r) == acct[r].op = "idle" /\ \A q \in Reqs : q < r => acct[q].op # "idle"

\* a new request takes the lowest free slot
FreeSlot(r) == req[r].op = "idle" /\ \A q \in Reqs : q < r => req[q].op # "idle"

\* ------------------------------------------------------ invitation values
GymIds == {1, 2, 3}
Addresses == {"a@x.com", "b@x.com", "bad"}
Mpins == {"111111", "222222"}

InvIdle == [pc |-> "idle", gymId |-> 0, gymName |-> "", emails |-> <<>>, i |-> 0,
            mpin |-> "", token |-> 0, expiresAt |-> 0, trainer |-> NoDoc,
            invited |-> <<>>, failed |-> <<>>]
NoInvResp == [status |-> 0, gymId |-> 0, invited |-> <<>>, failed |-> <<>>]

InviteResponse(status, gymId, invited, failed) ==
    [status |-> status, gymId |-> gymId, invited |-> invited, failed |-> failed]

\* an ApiError thrown before the loop
InviteFail(status, gymId) == InviteResponse(status, gymId, <<>>, <<>>)

FreeInv(r) == inv[r].pc = "idle" /\ \A q \in Reqs : q < r => inv[q].pc # "idle"

\* !email?.trim()
Blank(email) == email \in {"", " "}

Failure(email, error) == [email |-> email, error |-> error]

\* a plausible slip: the filter also asks for a pending membership
HasGymPending(doc, gymId) ==
    doc # NoDoc /\ \E k \in 1..Len(doc.gyms) :
                      doc.gyms[k].gymId = gymId /\ ~doc.gyms[k].isInvitationAccepted

\* Trainer.findOne({email, "gyms.gymId": gymId}) on the document of that email
HasGym(doc, gymId) ==
    doc # NoDoc /\ \E k \in 1..Len(doc.gyms) : doc.gyms[k].gymId = gymId

\* a plausible slip: the element is pushed with the flag set
MembershipAccepted(gymId, gymName, mpin, token, expiresAt) ==
    [gymId |-> gymId, gymName |-> gymName, mpin |-> mpin, isInvitationAccepted |-> TRUE,
     invitationTokens |-> <<[token |-> token, expiresAt |-> expiresAt]>>]

\* the element the invite $pushes onto gyms
Membership(gymId, gymName, mpin, token, expiresAt) ==
    [gymId |-> gymId, gymName |-> gymName, mpin |-> mpin, isInvitationAccepted |-> FALSE,
     invitationTokens |-> <<[token |-> token, expiresAt |-> expiresAt]>>]

\* a plausible slip: the update also resets the acceptance flags of the document
UpsertPending(doc, m) ==
    IF doc = NoDoc THEN [gyms |-> <<m>>, v |-> 0]
    ELSE [doc EXCEPT !.gyms = Append([k \in 1..Len(doc.gyms) |->
                                        [doc.gyms[k] EXCEPT !.isInvitationAccepted = FALSE]], m)]

\* a plausible slip: $set of gyms instead of $push
UpsertReplace(doc, m) == [gyms |-> <<m>>, v |-> 0]

\* findOneAndUpdate({email}, {$push: {gyms: m}}, {upsert: true})
\* (an inserted document starts at __v 0; a query update leaves __v alone)
Upsert(doc, m) ==
    IF doc = NoDoc THEN [gyms |-> <<m>>, v |-> 0] ELSE [doc EXCEPT !.gyms = Append(@, m)]

StripToken(tokens) == [j \in 1..Len(tokens) |-> [expiresAt |-> tokens[j].expiresAt]]

\* .select("-mpin -gyms.invitationTokens.token"): `mpin` is no top-level path, so
\* only the token values are left out
Sanitize(email, doc) ==
    [email |-> email,
     gyms |-> [k \in 1..Len(doc.gyms) |->
                 [doc.gyms[k] EXCEPT !.invitationTokens = StripToken(@)]]]

\* ------------------------------------------------------ acceptance values
\* req.query.token: absent (0), or a value generateToken has or has not drawn
AcceptTokens == 0..MaxTokens

AccIdle == [pc |-> "idle", token |-> 0, email |-> "", k |-> 0, v |-> 0, tokens |-> <<>>]
NoAccResp == [status |-> 0, token |-> 0, error |-> "", trainer |-> NoDoc]

AcceptResponse(status, token, error, trainer) ==
    [status |-> status, token |-> token, error |-> error, trainer |-> trainer]

FreeAcc(r) == acpt[r].pc = "idle" /\ \A q \in Reqs : q < r => acpt[q].pc # "idle"

\* "gyms.invitationTokens.token": token
HoldsToken(doc, token) ==
    \E k \in 1..Len(doc.gyms) :
       \E j \in 1..Len(doc.gyms[k].invitationTokens) :
          doc.gyms[k].invitationTokens[j].token = token

\* "gyms.invitationTokens.expiresAt": {$gt: new Date()}
AnyUnexpired(doc) ==
    \E k \in 1..Len(doc.gyms) :
       \E j \in 1..Len(doc.gyms[k].invitationTokens) :
          doc.gyms[k].invitationTokens[j].expiresAt > day

\* "gyms.isInvitationAccepted": false
AnyPending(doc) == \E k \in 1..Len(doc.gyms) : ~doc.gyms[k].isInvitationAccepted

\* the filter of acceptTrainerInvitation's findOne: three conditions on the
\* document, each met by some element of the arrays (there is no $elemMatch)
Matches(doc, token) ==
    doc # NoDoc /\ HoldsToken(doc, token) /\ AnyUnexpired(doc) /\ AnyPending(doc)

\* Trainer.findOne(filter): the email of the document found, "" for null
FindByToken(token) ==
    LET hits == {a \in Addresses : Matches(trainers[a], token)}
    IN IF hits = {} THEN "" ELSE CHOOSE a \in hits : TRUE

\* a plausible slip: the first membership is taken for the one holding the token
GymIndexFirst(doc, token) == 1

\* trainer.gyms.findIndex(gym => gym.invitationTokens.some(t => t.token === token))
GymIndex(doc, token) ==
    LET ks == {k \in 1..Len(doc.gyms) :
                 \E j \in 1..Len(doc.gyms[k].invitationTokens) :
                    doc.gyms[k].invitationTokens[j].token = token}
    IN CHOOSE k \in ks : \A l \in ks : k <= l

\* invitationTokens.filter(invitation => invitation.token !== token)
WithoutToken(tokens, token) ==
    LET Keep(t) == t.token # token IN SelectSeq(tokens, Keep)

\* ---------------------------------------------------------- list values
NoListResp == [status |-> 0, gymId |-> 0, trainers |-> {}]

\* Trainer.find({"gyms.gymId": gymId}): the emails of the documents found
FindByGym(gymId) == {a \in Addresses : HasGym(trainers[a], gymId)}

\* what the map keeps of a membership
GymDetails(g) ==
    [gymId |-> g.gymId, gymName |-> g.gymName, mpin |-> g.mpin,
     isInvitationAccepted |-> g.isInvitationAccepted]

\* a plausible slip: the memberships are not filtered by the gym asked for
ListEntryAllGyms(email, gymId) ==
    [email |-> email,
     gyms |-> [k \in 1..Len(trainers[email].gyms) |-> GymDetails(trainers[email].gyms[k])]]

\* trainer.gyms.filter(g => g.gymId.toString() === gymId).map(...)
ListEntry(email, gymId) ==
    LET OfGym(g) == g.gymId = gymId
        kept == SelectSeq(trainers[email].gyms, OfGym)
    IN [email |-> email, gyms |-> [k \in 1..Len(kept) |-> GymDetails(kept[k])]]

\* --------------------------------------------------------------- register
SamBody == [username |-> "Sam", email |-> "sam@x.com", password |-> "p"]
KimBody == [username |-> "kim", email |-> "Kim@x.com", password |-> "q"]
RegisterInputs == {SamBody, KimBody}

\* User.create: username.toLowerCase(), the schema setters, the pre-save hash
NewUser(body) ==
    [username |-> Lower(body.username),
     email |-> Lower(body.email),
     password |-> Hash(body.password),
     refreshToken |-> NoToken]

\* ------------------------------------------------------------------- Init
\* no request in flight, the clock at 0, nothing issued yet
Quiet ==
    /\ now = 0
    /\ req = [r \in Reqs |-> Idle]
    /\ resp = NoResp
    /\ issued = {}
    /\ spent = {}
    /\ loggedOut = [u \in UserIds |-> FALSE]
    /\ acct = [r \in Reqs |-> AcctIdle]

\* the store after registerUser(SamBody): one principal, no session
OnePrincipal ==
    /\ users = [u \in UserIds |-> IF u = 1 THEN NewUser(SamBody) ELSE NoDoc]
    /\ nextId = 2
    /\ Quiet

\* two gyms created by the registered principal, their admin (the third id is
\* of no gym), no trainer invited yet
NoInvitation ==
    /\ gyms = [g \in GymIds |-> CASE g = 1 -> [name |-> "Iron", admin |-> 1]
                                  [] g = 2 -> [name |-> "Flex", admin |-> 1]
                                  [] OTHER -> NoDoc]
    /\ trainers = [a \in Addresses |-> NoDoc]
    /\ nextToken = 1
    /\ mails = {}
    /\ inv = [r \in Reqs |-> InvIdle]
    /\ invResp = NoInvResp
    /\ day = 0
    /\ acpt = [r \in Reqs |-> AccIdle]
    /\ accResp = NoAccResp
    /\ listResp = NoListResp

Init == OnePrincipal /\ NoInvitation /\ track = FALSE

InitTrack == OnePrincipal /\ NoInvitation /\ track = TRUE

\* registerUser as one step: findOne, create, and the welcome mail (mailOk);
\* registrations are not interleaved with one another here
registerUser(body, mailOk) ==
    /\ UNCHANGED <<inviteVars, acct>>
    /\ UNCHANGED <<now, req, issued, track, spent, loggedOut>>
    /\ IF FindUser(body.username, body.email) # 0
       THEN /\ resp' = Fail("register", 409, NoToken)
            /\ UNCHANGED <<users, nextId>>
       ELSE /\ nextId \in UserIds
            /\ users' = [users EXCEPT ![nextId] = NewUser(body)]
            /\ nextId' = nextId + 1
            /\ resp' = IF mailOk
                       THEN WithUser(Response("register", 201, nextId, NoToken, NoToken, NoToken),
                                     Public(NewUser(body)))
                       ELSE Response("register", 500, nextId, NoToken, NoToken, NoToken)

\* --------------------------------------------- register, cut at its awaits
\* [fullName, email, username, password].some(field => field?.trim() === "")
EmptyField(body) == body.username = "" \/ body.email = "" \/ body.password = ""

\* the unique indexes on username and email: the write of doc as the document
\* of id u (0 for an insert) meets a duplicate key
DuplicateKey(doc, u) ==
    \E v \in UserIds : /\ v # u
                       /\ Exists(v)
                       /\ users[v].username = doc.username \/ users[v].email = doc.email

AccountReply(op, status, u) == Response(op, status, u, NoToken, NoToken, NoToken)

\* the validation, then User.findOne
RegisterFind(r, body) ==
    /\ FreeAcct(r)
    /\ UNCHANGED inviteVars
    /\ UNCHANGED <<users, nextId, now, req, issued, track, spent, loggedOut>>
    /\ IF EmptyField(body)
       THEN /\ resp' = AccountReply("register", 400, 0)
            /\ UNCHANGED acct
       ELSE IF FindUser(body.username, body.email) # 0
       THEN /\ resp' = AccountReply("register", 409, 0)
            /\ UNCHANGED acct
       ELSE /\ acct' = [acct EXCEPT ![r] = [AcctIdle EXCEPT !.op = "register", !.pc = "create",
                                                            !.username = body.username,
                                                            !.email = body.email,
                                                            !.password = body.password]]
            /\ UNCHANGED resp

\* User.create: the insert fails on a duplicate key (no catch: 500)
RegisterCreate(r) ==
    /\ acct[r].pc = "create"
    /\ UNCHANGED inviteVars
    /\ UNCHANGED <<now, req, issued, track, spent, loggedOut>>
    /\ LET doc == NewUser([username |-> acct[r].username, email |-> acct[r].email,
                           password |-> acct[r].password])
       IN IF DuplicateKey(doc, 0)
          THEN /\ resp' = AccountReply("register", 500, 0)
               /\ acct' = [acct EXCEPT ![r] = AcctIdle]
               /\ UNCHANGED <<users, nextId>>
          ELSE /\ nextId \in UserIds
               /\ users' = [users EXCEPT ![nextId] = doc]
               /\ nextId' = nextId + 1
               /\ acct' = [acct EXCEPT ![r].pc = "mail", ![r].uid = nextId]
               /\ UNCHANGED resp

\* a plausible slip: a registration whose mail fails is rolled back
RegisterMailRollback(r, ok) ==
    /\ acct[r].pc = "mail"
    /\ UNCHANGED inviteVars
    /\ UNCHANGED <<nextId, now, req, issued, track, spent, loggedOut>>
    /\ IF ok
       THEN /\ acct' = [acct EXCEPT ![r].pc = "read"]
            /\ UNCHANGED <<resp, users>>
       ELSE /\ acct' = [acct EXCEPT ![r] = AcctIdle]
            /\ users' = [users EXCEPT ![acct[r].uid] = NoDoc]
            /\ resp' = AccountReply("register", 500, acct[r].uid)

\* sendVerificationEmail resolves (ok) or rejects
RegisterMail(r, ok) ==
    /\ acct[r].pc = "mail"
    /\ UNCHANGED inviteVars
    /\ UNCHANGED <<users, nextId, now, req, issued, track, spent, loggedOut>>
    /\ IF ok
       THEN /\ acct' = [acct EXCEPT ![r].pc = "read"]
            /\ UNCHANGED resp
       ELSE /\ acct' = [acct EXCEPT ![r] = AcctIdle]
            /\ resp' = AccountReply("register", 500, acct[r].uid)

\* User.findById(newUser._id).select("-password -refreshToken"), then the 201
RegisterRead(r) ==
    /\ acct[r].pc = "read"
    /\ UNCHANGED inviteVars
    /\ UNCHANGED <<users, nextId, now, req, issued, track, spent, loggedOut>>
    /\ acct' = [acct EXCEPT ![r] = AcctIdle]
    /\ resp' = IF Exists(acct[r].uid)
               THEN WithUser(AccountReply("register", 201, acct[r].uid),
                             Public(users[acct[r].uid]))
               ELSE AccountReply("register", 500, acct[r].uid)

\* ------------------------------------------------------------------ login
LoginCheck(username, email, password) ==
    IF username = "" /\ email = "" THEN 400
    ELSE IF password = "" THEN 400
    ELSE IF FindUser(username, email) = 0 THEN 404
    ELSE IF ~isPasswordCorrect(users[FindUser(username, email)], password) THEN 401
    ELSE 200

StartLogin(r, username, email, password) ==
    /\ UNCHANGED <<inviteVars, acct>>
    /\ FreeSlot(r)
    /\ UNCHANGED <<users, nextId, now, issued, track, spent, loggedOut>>
    /\ IF LoginCheck(username, email, password) # 200
       THEN /\ resp' = Fail("login", LoginCheck(username, email, password), NoToken)
            /\ UNCHANGED req
       ELSE /\ req' = [req EXCEPT ![r] = [Idle EXCEPT !.op = "login", !.pc = "genRead",
                                                      !.uid = FindUser(username, email)]]
            /\ UNCHANGED resp

\* ------------------------------------- generateAccessAndRefreshTokens
\* a plausible slip: refreshAccessToken has no catch around the call
GenerateFailureUncaught(op) == 500

\* the status a throw inside generateAccessAndRefreshTokens reaches the client with
GenerateFailure(op) == IF op = "rotate" THEN 401 ELSE 500

\* findById, the two jwt.sign calls, and `user.refreshToken = refreshToken`, which
\* marks the path modified only when the value differs from the one read
GenerateRead(r) ==
    /\ UNCHANGED <<inviteVars, acct>>
    /\ req[r].pc = "genRead"
    /\ UNCHANGED <<users, nextId, now, issued, track, spent, loggedOut>>
    /\ IF ~Exists(req[r].uid)
       THEN /\ resp' = Fail(req[r].op, GenerateFailure(req[r].op), req[r].pres)
            /\ req' = [req EXCEPT ![r] = Idle]
       ELSE /\ req' = [req EXCEPT ![r].pc = "genSave",
                                  ![r].mod = (generateRefreshToken(req[r].uid, users[req[r].uid])
                                                # users[req[r].uid].refreshToken),
                                  ![r].acc = generateAccessToken(req[r].uid, users[req[r].uid]),
                                  ![r].ref = generateRefreshToken(req[r].uid, users[req[r].uid])]
            /\ UNCHANGED resp

\* user.save(): $set of the modified paths only
SavedToken(mod, ref, stored) == IF mod THEN ref ELSE stored

\* (the document loginUser reads back for its response is taken in the same
\* step as the save)
GenerateSave(r) ==
    /\ UNCHANGED <<inviteVars, acct>>
    /\ req[r].pc = "genSave"
    /\ UNCHANGED <<nextId, now, track>>
    /\ req' = [req EXCEPT ![r] = Idle]
    /\ IF ~Exists(req[r].uid)
       THEN /\ resp' = Fail(req[r].op, GenerateFailure(req[r].op), req[r].pres)
            /\ UNCHANGED <<users, issued, spent, loggedOut>>
       ELSE /\ users' = [users EXCEPT ![req[r].uid].refreshToken =
                            SavedToken(req[r].mod, req[r].ref, @)]
            /\ resp' = IF req[r].op = "login"
                       THEN WithUser(Response("login", 200, req[r].uid, req[r].acc, req[r].ref,
                                              req[r].pres),
                                     Public(users[req[r].uid]))
                       ELSE Response(req[r].op, 200, req[r].uid, req[r].acc, req[r].ref, req[r].pres)
            /\ issued' = issued \cup {req[r].acc, req[r].ref}
            /\ spent' = IF track /\ req[r].op = "rotate" THEN spent \cup {req[r].pres} ELSE spent
            /\ loggedOut' = IF track /\ req[r].op = "login"
                            THEN [loggedOut EXCEPT ![req[r].uid] = FALSE]
                            ELSE loggedOut

\* ---------------------------------------------------------- Session Guard
\* a plausible slip: the guard also asks for a stored refresh token
verifyJWTSession(tok) ==
    IF tok = NoToken THEN 0
    ELSE IF ~jwtVerify(tok, "ACCESS") THEN 0
    ELSE IF ~Exists(tok.sub) THEN 0
    ELSE IF users[tok.sub].refreshToken = NoToken THEN 0
    ELSE tok.sub

\* a plausible slip: the decoded payload is trusted without the lookup
verifyJWTNoLookup(tok) ==
    IF tok = NoToken THEN 0
    ELSE IF ~jwtVerify(tok, "ACCESS") THEN 0
    ELSE tok.sub

\* the principal verifyJWT attaches to the request, 0 when it answers 401
verifyJWT(tok) ==
    IF tok = NoToken THEN 0
    ELSE IF ~jwtVerify(tok, "ACCESS") THEN 0
    ELSE IF ~Exists(tok.sub) THEN 0
    ELSE tok.sub

getCurrentUser(tok) ==
    /\ UNCHANGED <<inviteVars, acct>>
    /\ UNCHANGED <<users, nextId, now, req, issued, track, spent, loggedOut>>
    /\ resp' = IF verifyJWT(tok) = 0
               THEN Fail("current", 401, tok)
               ELSE WithUser(Response("current", 200, verifyJWT(tok), NoToken, NoToken, tok),
                             Public(users[verifyJWT(tok)]))

\* --------------------------------------------------------- update-account
\* verifyJWT, then the validation (the full name is carried by no operation here)
StartUpdate(r, tok, email) ==
    /\ FreeAcct(r)
    /\ UNCHANGED inviteVars
    /\ UNCHANGED <<users, nextId, now, req, issued, track, spent, loggedOut>>
    /\ IF verifyJWT(tok) = 0
       THEN /\ resp' = Fail("update", 401, tok)
            /\ UNCHANGED acct
       ELSE IF email = ""
       THEN /\ resp' = AccountReply("update", 400, verifyJWT(tok))
            /\ UNCHANGED acct
       ELSE /\ acct' = [acct EXCEPT ![r] = [AcctIdle EXCEPT !.op = "update", !.pc = "set",
                                                            !.uid = verifyJWT(tok),
                                                            !.email = email]]
            /\ UNCHANGED resp

\* User.findByIdAndUpdate(_id, {$set: {fullName, email}}, {new: true})
\* .select("-password"): the update is cast by the schema (lowercase), and
\* fails on a duplicate key (no catch: 500)
UpdateSet(r) ==
    /\ acct[r].pc = "set"
    /\ UNCHANGED inviteVars
    /\ UNCHANGED <<nextId, now, req, issued, track, spent, loggedOut>>
    /\ acct' = [acct EXCEPT ![r] = AcctIdle]
    /\ LET u == acct[r].uid
       IN IF ~Exists(u)
          THEN /\ resp' = AccountReply("update", 404, u)
               /\ UNCHANGED users
          ELSE LET doc == [users[u] EXCEPT !.email = Lower(acct[r].email)]
               IN IF \E v \in UserIds : v # u /\ Exists(v) /\ users[v].email = doc.email
                  THEN /\ resp' = AccountReply("update", 500, u)
                       /\ UNCHANGED users
                  ELSE /\ users' = [users EXCEPT ![u] = doc]
                       /\ resp' = WithUser(AccountReply("update", 200, u),
                                           Select(doc, {"password"}))

\* -------------------------------------------------------- change-password
\* verifyJWT, then the handler up to User.findById
StartPassword(r, tok, oldPassword, newPassword) ==
    /\ FreeAcct(r)
    /\ UNCHANGED inviteVars
    /\ UNCHANGED <<users, nextId, now, req, issued, track, spent, loggedOut>>
    /\ IF verifyJWT(tok) = 0
       THEN /\ resp' = Fail("password", 401, tok)
            /\ UNCHANGED acct
       ELSE /\ acct' = [acct EXCEPT ![r] = [AcctIdle EXCEPT !.op = "password", !.pc = "find",
                                                            !.uid = verifyJWT(tok),
                                                            !.old = oldPassword,
                                                            !.password = newPassword]]
            /\ UNCHANGED resp

\* a plausible slip: the old password is not verified
PasswordFindUnchecked(r) ==
    /\ acct[r].pc = "find"
    /\ UNCHANGED inviteVars
    /\ UNCHANGED <<users, nextId, now, req, issued, track, spent, loggedOut>>
    /\ IF ~Exists(acct[r].uid)
       THEN /\ resp' = AccountReply("password", 404, acct[r].uid)
            /\ acct' = [acct EXCEPT ![r] = AcctIdle]
       ELSE /\ acct' = [acct EXCEPT ![r].pc = "save"]
            /\ UNCHANGED resp

\* User.findById, then isPasswordCorrect(oldPassword) and `user.password = newPassword`
PasswordFind(r) ==
    /\ acct[r].pc = "find"
    /\ UNCHANGED inviteVars
    /\ UNCHANGED <<users, nextId, now, req, issued, track, spent, loggedOut>>
    /\ IF ~Exists(acct[r].uid)
       THEN /\ resp' = AccountReply("password", 404, acct[r].uid)
            /\ acct' = [acct EXCEPT ![r] = AcctIdle]
       ELSE IF ~isPasswordCorrect(users[acct[r].uid], acct[r].old)
       THEN /\ resp' = AccountReply("password", 400, acct[r].uid)
            /\ acct' = [acct EXCEPT ![r] = AcctIdle]
       ELSE /\ acct' = [acct EXCEPT ![r].pc = "save"]
            /\ UNCHANGED resp

\* a plausible slip: a password change ends the session
PasswordSaveRevoking(r) ==
    /\ acct[r].pc = "save"
    /\ UNCHANGED inviteVars
    /\ UNCHANGED <<nextId, now, req, issued, track, spent, loggedOut>>
    /\ acct' = [acct EXCEPT ![r] = AcctIdle]
    /\ IF ~Exists(acct[r].uid)
       THEN /\ resp' = AccountReply("password", 500, acct[r].uid)
            /\ UNCHANGED users
       ELSE /\ users' = [users EXCEPT ![acct[r].uid].password = Hash(acct[r].password),
                                      ![acct[r].uid].refreshToken = NoToken]
            /\ resp' = AccountReply("password", 200, acct[r].uid)

\* user.save(): the pre-save hook hashes the modified password, $set of that path
PasswordSave(r) ==
    /\ acct[r].pc = "save"
    /\ UNCHANGED inviteVars
    /\ UNCHANGED <<nextId, now, req, issued, track, spent, loggedOut>>
    /\ acct' = [acct EXCEPT ![r] = AcctIdle]
    /\ IF ~Exists(acct[r].uid)
       THEN /\ resp' = AccountReply("password", 500, acct[r].uid)
            /\ UNCHANGED users
       ELSE /\ users' = [users EXCEPT ![acct[r].uid].password = Hash(acct[r].password)]
            /\ resp' = AccountReply("password", 200, acct[r].uid)

\* ----------------------------------------------------------------- logout
StartLogout(r, tok) ==
    /\ UNCHANGED <<inviteVars, acct>>
    /\ FreeSlot(r)
    /\ UNCHANGED <<users, nextId, now, issued, track, spent, loggedOut>>
    /\ IF verifyJWT(tok) = 0
       THEN /\ resp' = Fail("logout", 401, tok)
            /\ UNCHANGED req
       ELSE /\ req' = [req EXCEPT ![r] = [Idle EXCEPT !.op = "logout", !.pc = "unset",
                                                      !.uid = verifyJWT(tok)]]
            /\ UNCHANGED resp

\* User.findByIdAndUpdate(userId, {$unset: {refreshToken: 1}})
LogoutUnset(r) ==
    /\ UNCHANGED <<inviteVars, acct>>
    /\ req[r].pc = "unset"
    /\ UNCHANGED <<nextId, now, issued, track, spent>>
    /\ req' = [req EXCEPT ![r] = Idle]
    /\ users' = IF Exists(req[r].uid)
                THEN [users EXCEPT ![req[r].uid].refreshToken = NoToken]
                ELSE users
    /\ loggedOut' = IF track THEN [loggedOut EXCEPT ![req[r].uid] = TRUE] ELSE loggedOut
    /\ resp' = Response("logout", 200, req[r].uid, NoToken, NoToken, NoToken)

\* ----------------------------------------------------------------- rotate
\* a plausible slip: the presented value is not compared with the stored one
RotateCheckNoCompare(tok) ==
    IF tok = NoToken THEN 401
    ELSE IF ~jwtVerify(tok, "REFRESH") THEN 401
    ELSE IF ~Exists(tok.sub) THEN 401
    ELSE 200

\* refreshAccessToken up to the call of generateAccessAndRefreshTokens
RotateCheck(tok) ==
    IF tok = NoToken THEN 401
    ELSE IF ~jwtVerify(tok, "REFRESH") THEN 401
    ELSE IF ~Exists(tok.sub) THEN 401
    ELSE IF tok # users[tok.sub].refreshToken THEN 401
    ELSE 200

StartRotate(r, tok) ==
    /\ UNCHANGED <<inviteVars, acct>>
    /\ FreeSlot(r)
    /\ UNCHANGED <<users, nextId, now, issued, track, spent, loggedOut>>
    /\ IF RotateCheck(tok) # 200
       THEN /\ resp' = Fail("rotate", RotateCheck(tok), tok)
            /\ UNCHANGED req
       ELSE /\ req' = [req EXCEPT ![r] = [Idle EXCEPT !.op = "rotate", !.pc = "genRead",
                                                      !.uid = tok.sub, !.pres = tok]]
            /\ UNCHANGED resp

\* ----------------------------------------------------------------- invite
RECURSIVE SkipBlank(_, _)
\* the first index from i on whose address passes the empty check
SkipBlank(emails, i) ==
    IF i > Len(emails) \/ ~Blank(emails[i]) THEN i ELSE SkipBlank(emails, i + 1)

\* a plausible slip: a blank address is skipped without a failure entry
BlankFailuresNone(emails, i) == <<>>

RECURSIVE BlankFailures(_, _)
\* the failure entries of the addresses skipped on the way
BlankFailures(emails, i) ==
    IF i > Len(emails) \/ ~Blank(emails[i]) THEN <<>>
    ELSE <<Failure(emails[i], "Invalid email format")>> \o BlankFailures(emails, i + 1)

\* the loop from address i on, with locals s: up to the next findOne, or to the
\* 201 response when the list is exhausted
Continue(r, s, i) ==
    LET k == SkipBlank(s.emails, i)
        failed == s.failed \o BlankFailures(s.emails, i)
    IN IF k > Len(s.emails)
       THEN /\ inv' = [inv EXCEPT ![r] = InvIdle]
            /\ invResp' = InviteResponse(201, s.gymId, s.invited, failed)
       ELSE /\ inv' = [inv EXCEPT ![r] = [s EXCEPT !.pc = "find", !.i = k, !.failed = failed]]
            /\ UNCHANGED invResp

\* a plausible slip: the gym is not looked up
InviteCheckNoGym(gymId, emails) ==
    IF emails = <<>> THEN 400 ELSE 200

\* the list validation, then Gym.findById
InviteCheck(gymId, emails) ==
    IF emails = <<>> THEN 400
    ELSE IF gyms[gymId] = NoDoc THEN 404
    ELSE 200

inviteTrainers(r, gymId, emails) ==
    /\ FreeInv(r)
    /\ UNCHANGED <<sessionVars, now, day, acpt, accResp, listResp>>
    /\ UNCHANGED <<gyms, trainers, nextToken, mails>>
    /\ IF InviteCheck(gymId, emails) # 200
       THEN /\ invResp' = InviteFail(InviteCheck(gymId, emails), gymId)
            /\ UNCHANGED inv
       ELSE Continue(r, [InvIdle EXCEPT !.gymId = gymId,
                                        !.gymName = IF gyms[gymId] = NoDoc THEN ""
                                                    ELSE gyms[gymId].name,
                                        !.emails = emails], 1)

\* POST /:gymId/trainers/invite: verifyJWT, then the handler; the handler
\* reads neither req.user nor gym.admin
inviteRoute(r, tok, gymId, emails) ==
    IF verifyJWT(tok) = 0
    THEN /\ FreeInv(r)
         /\ invResp' = InviteFail(401, gymId)
         /\ UNCHANGED <<sessionVars, now, day, acpt, accResp, listResp>>
         /\ UNCHANGED <<gyms, trainers, nextToken, mails, inv>>
    ELSE inviteTrainers(r, gymId, emails)

\* a plausible slip: the invitation mail goes out before the lookup's answer is used
InviteFindMailing(r) ==
    /\ inv[r].pc = "find"
    /\ UNCHANGED <<sessionVars, now, day, acpt, accResp, listResp>>
    /\ UNCHANGED <<gyms, trainers>>
    /\ LET s == inv[r]
           email == s.emails[s.i]
       IN IF HasGym(trainers[email], s.gymId)
          THEN /\ UNCHANGED nextToken
               /\ mails' = mails \cup {[to |-> email, gymName |-> s.gymName, mpin |-> "111111",
                                         token |-> 0, delivered |-> TRUE]}
               /\ Continue(r, [s EXCEPT !.failed = Append(@, Failure(email,
                                   "Trainer already invited to this gym"))], s.i + 1)
          ELSE /\ nextToken <= MaxTokens
               /\ nextToken' = nextToken + 1
               /\ UNCHANGED mails
               /\ \E mpin \in Mpins :
                     inv' = [inv EXCEPT ![r] = [s EXCEPT !.pc = "upsert", !.mpin = mpin,
                                                        !.token = nextToken,
                                                        !.expiresAt = day + InvitationDays]]
               /\ UNCHANGED invResp

\* Trainer.findOne for the address; then generateMPIN, generateToken, expiresAt
InviteFind(r) ==
    /\ inv[r].pc = "find"
    /\ UNCHANGED <<sessionVars, now, day, acpt, accResp, listResp>>
    /\ UNCHANGED <<gyms, trainers, mails>>
    /\ LET s == inv[r]
           email == s.emails[s.i]
       IN IF HasGym(trainers[email], s.gymId)
          THEN /\ UNCHANGED nextToken
               /\ Continue(r, [s EXCEPT !.failed = Append(@, Failure(email,
                                   "Trainer already invited to this gym"))], s.i + 1)
          ELSE /\ nextToken <= MaxTokens
               /\ nextToken' = nextToken + 1
               /\ \E mpin \in Mpins :
                     inv' = [inv EXCEPT ![r] = [s EXCEPT !.pc = "upsert", !.mpin = mpin,
                                                        !.token = nextToken,
                                                        !.expiresAt = day + InvitationDays]]
               /\ UNCHANGED invResp

\* Trainer.findOneAndUpdate with upsert
InviteUpsert(r) ==
    /\ inv[r].pc = "upsert"
    /\ UNCHANGED <<sessionVars, now, day, acpt, accResp, listResp>>
    /\ UNCHANGED <<gyms, nextToken, mails, invResp>>
    /\ LET s == inv[r]
           email == s.emails[s.i]
       IN /\ trainers' = [trainers EXCEPT ![email] =
                            Upsert(@, Membership(s.gymId, s.gymName, s.mpin, s.token, s.expiresAt))]
          /\ inv' = [inv EXCEPT ![r].pc = "reload"]

\* Trainer.findById(trainer._id).select(...)
InviteReload(r) ==
    /\ inv[r].pc = "reload"
    /\ UNCHANGED <<sessionVars, now, day, acpt, accResp, listResp>>
    /\ UNCHANGED <<gyms, trainers, nextToken, mails, invResp>>
    /\ LET email == inv[r].emails[inv[r].i]
       IN inv' = [inv EXCEPT ![r].pc = "send", ![r].trainer = Sanitize(email, trainers[email])]

\* a plausible slip: the template is filled with an access code drawn anew
InviteSendNewCode(r, ok) ==
    /\ inv[r].pc = "send"
    /\ UNCHANGED <<sessionVars, now, day, acpt, accResp, listResp>>
    /\ UNCHANGED <<gyms, trainers, nextToken>>
    /\ LET s == inv[r]
           email == s.emails[s.i]
       IN /\ \E mpin \in Mpins :
                mails' = mails \cup {[to |-> email, gymName |-> s.gymName, mpin |-> mpin,
                                      token |-> s.token, delivered |-> ok]}
          /\ IF ok
             THEN Continue(r, [s EXCEPT !.invited = Append(@, s.trainer)], s.i + 1)
             ELSE Continue(r, [s EXCEPT !.failed = Append(@, Failure(email,
                                  "Failed to send invitation email"))], s.i + 1)

\* a plausible slip: no try/catch around sendEmail, a rejection ends the request
InviteSendUncaught(r, ok) ==
    /\ inv[r].pc = "send"
    /\ UNCHANGED <<sessionVars, now, day, acpt, accResp, listResp>>
    /\ UNCHANGED <<gyms, trainers, nextToken>>
    /\ LET s == inv[r]
           email == s.emails[s.i]
       IN /\ mails' = mails \cup {[to |-> email, gymName |-> s.gymName, mpin |-> s.mpin,
                                    token |-> s.token, delivered |-> ok]}
          /\ IF ok
             THEN Continue(r, [s EXCEPT !.invited = Append(@, s.trainer)], s.i + 1)
             ELSE /\ inv' = [inv EXCEPT ![r] = InvIdle]
                  /\ invResp' = InviteFail(500, s.gymId)

\* sendEmail resolves (ok) or rejects
InviteSend(r, ok) ==
    /\ inv[r].pc = "send"
    /\ UNCHANGED <<sessionVars, now, day, acpt, accResp, listResp>>
    /\ UNCHANGED <<gyms, trainers, nextToken>>
    /\ LET s == inv[r]
           email == s.emails[s.i]
       IN /\ mails' = mails \cup {[to |-> email, gymName |-> s.gymName, mpin |-> s.mpin,
                                    token |-> s.token, delivered |-> ok]}
          /\ IF ok
             THEN Continue(r, [s EXCEPT !.invited = Append(@, s.trainer)], s.i + 1)
             ELSE Continue(r, [s EXCEPT !.failed = Append(@, Failure(email,
                                  "Failed to send invitation email"))], s.i + 1)

\* ----------------------------------------------------------------- accept
\* a plausible slip: a token that is stored but matches no more gets its own message
acceptTrainerInvitationTelling(r, token) ==
    /\ FreeAcc(r)
    /\ UNCHANGED <<sessionVars, now, day, listResp>>
    /\ UNCHANGED <<gyms, trainers, nextToken, mails, inv, invResp>>
    /\ IF token = 0
       THEN /\ accResp' = AcceptResponse(400, token, "Token is required", NoDoc)
            /\ UNCHANGED acpt
       ELSE IF FindByToken(token) = ""
       THEN /\ accResp' = AcceptResponse(400, token,
                              IF \E a \in Addresses : trainers[a] # NoDoc /\ HoldsToken(trainers[a], token)
                              THEN "Invitation link has expired."
                              ELSE "Invalid or expired invitation link.", NoDoc)
            /\ UNCHANGED acpt
       ELSE LET email == FindByToken(token)
                doc == trainers[email]
                k == GymIndex(doc, token)
            IN /\ acpt' = [acpt EXCEPT ![r] =
                            [pc |-> "save", token |-> token, email |-> email, k |-> k,
                             v |-> doc.v,
                             tokens |-> WithoutToken(doc.gyms[k].invitationTokens, token)]]
               /\ UNCHANGED accResp

\* the token check and Trainer.findOne, then the changes made in memory
acceptTrainerInvitation(r, token) ==
    /\ FreeAcc(r)
    /\ UNCHANGED <<sessionVars, now, day, listResp>>
    /\ UNCHANGED <<gyms, trainers, nextToken, mails, inv, invResp>>
    /\ IF token = 0
       THEN /\ accResp' = AcceptResponse(400, token, "Token is required", NoDoc)
            /\ UNCHANGED acpt
       ELSE IF FindByToken(token) = ""
       THEN /\ accResp' = AcceptResponse(400, token, "Invalid or expired invitation link.", NoDoc)
            /\ UNCHANGED acpt
       ELSE LET email == FindByToken(token)
                doc == trainers[email]
                k == GymIndex(doc, token)
            IN /\ acpt' = [acpt EXCEPT ![r] =
                            [pc |-> "save", token |-> token, email |-> email, k |-> k,
                             v |-> doc.v,
                             tokens |-> WithoutToken(doc.gyms[k].invitationTokens, token)]]
               /\ UNCHANGED accResp

\* a plausible slip: the save writes the gyms array back whole, up to the
\* element it changed
AcceptSaveWholeArray(r) ==
    /\ acpt[r].pc = "save"
    /\ UNCHANGED <<sessionVars, now, day, listResp>>
    /\ UNCHANGED <<gyms, nextToken, mails, inv, invResp>>
    /\ LET a == acpt[r]
           doc == trainers[a.email]
       IN /\ trainers' = [trainers EXCEPT ![a.email] =
                            [gyms |-> [l \in 1..a.k |->
                                         IF l = a.k
                                         THEN [doc.gyms[l] EXCEPT !.isInvitationAccepted = TRUE,
                                                                  !.invitationTokens = a.tokens]
                                         ELSE doc.gyms[l]],
                             v |-> doc.v + 1]]
          /\ acpt' = [acpt EXCEPT ![r].pc = "reload"]
          /\ UNCHANGED accResp

\* a plausible slip: the flag is set on every membership of the trainer
AcceptSaveAllGyms(r) ==
    /\ acpt[r].pc = "save"
    /\ UNCHANGED <<sessionVars, now, day, listResp>>
    /\ UNCHANGED <<gyms, nextToken, mails, inv, invResp>>
    /\ LET a == acpt[r]
           doc == trainers[a.email]
       IN IF doc = NoDoc \/ doc.v # a.v
          THEN /\ accResp' = AcceptResponse(500, a.token, "VersionError", NoDoc)
               /\ acpt' = [acpt EXCEPT ![r] = AccIdle]
               /\ UNCHANGED trainers
          ELSE /\ trainers' = [trainers EXCEPT ![a.email] =
                                 [gyms |-> [l \in 1..Len(doc.gyms) |->
                                              IF l = a.k
                                              THEN [doc.gyms[l] EXCEPT !.isInvitationAccepted = TRUE,
                                                                       !.invitationTokens = a.tokens]
                                              ELSE [doc.gyms[l] EXCEPT !.isInvitationAccepted = TRUE]],
                                  v |-> doc.v + 1]]
               /\ acpt' = [acpt EXCEPT ![r].pc = "reload"]
               /\ UNCHANGED accResp

\* a plausible slip: the save does not ask for the __v that was read
AcceptSaveUnversioned(r) ==
    /\ acpt[r].pc = "save"
    /\ UNCHANGED <<sessionVars, now, day, listResp>>
    /\ UNCHANGED <<gyms, nextToken, mails, inv, invResp>>
    /\ LET a == acpt[r]
           doc == trainers[a.email]
       IN /\ trainers' = [trainers EXCEPT ![a.email] =
                            [doc EXCEPT !.gyms[a.k].isInvitationAccepted = TRUE,
                                        !.gyms[a.k].invitationTokens = a.tokens,
                                        !.v = @ + 1]]
          /\ acpt' = [acpt EXCEPT ![r].pc = "reload"]
          /\ UNCHANGED accResp

\* trainer.save(): $set of the two modified paths of gyms[k], guarded by the
\* __v that was read (setting an array makes the save versioned)
AcceptSave(r) ==
    /\ acpt[r].pc = "save"
    /\ UNCHANGED <<sessionVars, now, day, listResp>>
    /\ UNCHANGED <<gyms, nextToken, mails, inv, invResp>>
    /\ LET a == acpt[r]
           doc == trainers[a.email]
       IN IF doc = NoDoc \/ doc.v # a.v
          THEN /\ accResp' = AcceptResponse(500, a.token, "VersionError", NoDoc)
               /\ acpt' = [acpt EXCEPT ![r] = AccIdle]
               /\ UNCHANGED trainers
          ELSE /\ trainers' = [trainers EXCEPT ![a.email] =
                                 [doc EXCEPT !.gyms[a.k].isInvitationAccepted = TRUE,
                                             !.gyms[a.k].invitationTokens = a.tokens,
                                             !.v = @ + 1]]
               /\ acpt' = [acpt EXCEPT ![r].pc = "reload"]
               /\ UNCHANGED accResp

\* Trainer.findById(trainer._id).select(...), then the 200 response
AcceptReload(r) ==
    /\ acpt[r].pc = "reload"
    /\ UNCHANGED <<sessionVars, now, day, listResp>>
    /\ UNCHANGED <<gyms, trainers, nextToken, mails, inv, invResp>>
    /\ acpt' = [acpt EXCEPT ![r] = AccIdle]
    /\ accResp' = AcceptResponse(200, acpt[r].token, "",
                                 Sanitize(acpt[r].email, trainers[acpt[r].email]))

\* ------------------------------------------------------------------- list
\* Trainer.find, then the 404 or the mapped list (one entry per document found;
\* the entries are kept as a set, their order is the store's)
getTrainersForGym(gymId) ==
    /\ UNCHANGED <<sessionVars, now>>
    /\ UNCHANGED <<gyms, trainers, nextToken, mails, inv, invResp, day, acpt, accResp>>
    /\ listResp' = IF FindByGym(gymId) = {}
                   THEN [status |-> 404, gymId |-> gymId, trainers |-> {}]
                   ELSE [status |-> 200, gymId |-> gymId,
                         trainers |-> {ListEntry(a, gymId) : a \in FindByGym(gymId)}]

\* GET /:gymId/trainers: verifyJWT, then the handler; the handler reads
\* neither req.user nor the gym
trainersRoute(tok, gymId) ==
    IF verifyJWT(tok) = 0
    THEN /\ listResp' = [status |-> 401, gymId |-> gymId, trainers |-> {}]
         /\ UNCHANGED <<sessionVars, now>>
         /\ UNCHANGED <<gyms, trainers, nextToken, mails, inv, invResp, day, acpt, accResp>>
    ELSE getTrainersForGym(gymId)

\* ------------------------------------------------------------ environment
\* a day passes
NextDay ==
    /\ day < MaxDay
    /\ day' = day + 1
    /\ invResp' = NoInvResp
    /\ accResp' = NoAccResp
    /\ UNCHANGED <<sessionVars, now, listResp>>
    /\ UNCHANGED <<gyms, trainers, nextToken, mails, inv, acpt>>

\* the store's deleteOne on a principal: no handler of the server calls it
DeleteUser(u) ==
    /\ UNCHANGED <<inviteVars, acct>>
    /\ Exists(u)
    /\ users' = [users EXCEPT ![u] = NoDoc]
    /\ UNCHANGED <<nextId, now, req, resp, issued, track, spent, loggedOut>>

Tick ==
    /\ now < MaxTime
    /\ now' = now + 1
    /\ resp' = NoResp
    /\ invResp' = NoInvResp
    /\ UNCHANGED <<users, nextId, req, issued, track, spent, loggedOut, acct>>
    /\ UNCHANGED <<gyms, trainers, nextToken, mails, inv, day, acpt, accResp, listResp>>

\* ------------------------------------------------------------------- Next
Usernames == {"", "Sam", "kim"}
Emails == {"", "sam@x.com", "kim@x.com"}
Passwords == {"", "p", "q"}

Register == \E body \in RegisterInputs, mailOk \in BOOLEAN : registerUser(body, mailOk)
Login == \E r \in Reqs, username \in Usernames, email \in Emails, password \in Passwords :
            StartLogin(r, username, email, password)
Generate == \E r \in Reqs : GenerateRead(r) \/ GenerateSave(r)
Guard == \E tok \in PresentedTokens : getCurrentUser(tok)
Logout == \E r \in Reqs : (\E tok \in PresentedTokens : StartLogout(r, tok)) \/ LogoutUnset(r)
Rotate == \E r \in Reqs, tok \in PresentedTokens : StartRotate(r, tok)
Delete == \E u \in UserIds : DeleteUser(u)

\* the session lifecycle of a registered principal, two requests in flight
Next == Login \/ Generate \/ Guard \/ Logout \/ Rotate \/ Delete \/ Tick

Spec == Init /\ [][Next]_vars

\* the same behaviours, with the histories `spent` and `loggedOut` kept
SpecTrack == InitTrack /\ [][Next]_vars

\* the lists a gym admin posts
Batches == {<<>>, <<"a@x.com", " ", "b@x.com">>, <<"a@x.com", "bad", "a@x.com">>}

Invite == \E r \in Reqs, gymId \in GymIds, emails \in Batches : inviteTrainers(r, gymId, emails)
InviteStep == \E r \in Reqs : \/ InviteFind(r)
                              \/ InviteUpsert(r)
                              \/ InviteReload(r)
                              \/ \E ok \in BOOLEAN : InviteSend(r, ok)

\* invitations of trainers to gyms, two requests in flight (nothing an invite
\* does depends on the clock)
NextInvite == Invite \/ InviteStep

SpecInv == Init /\ [][NextInvite]_vars

\* one trainer invited twice in a request; one request of each kind in flight
SmallBatches == {<<"a@x.com", "a@x.com">>}
OneReq == {1}

InviteSingle == \E r \in OneReq, gymId \in GymIds, emails \in SmallBatches :
                   inviteTrainers(r, gymId, emails)
AcceptSingle == \E r \in OneReq, token \in AcceptTokens : acceptTrainerInvitation(r, token)
AcceptStep == \E r \in Reqs : AcceptSave(r) \/ AcceptReload(r)

\* an invitation and an acceptance in flight together, over the days
NextAccept == InviteSingle \/ InviteStep \/ AcceptSingle \/ AcceptStep \/ NextDay

SpecAccept == Init /\ [][NextAccept]_vars

\* the lists of two trainers, each invited once
TwoAddresses == {<<"a@x.com", "b@x.com">>}

InviteTwo == \E r \in Reqs, gymId \in GymIds, emails \in TwoAddresses :
                inviteTrainers(r, gymId, emails)
List == \E gymId \in GymIds : getTrainersForGym(gymId)

\* the trainers of a gym listed while invitations are in flight
NextList == InviteTwo \/ InviteStep \/ List

SpecList == Init /\ [][NextList]_vars

\* one trainer invited once in a request
OneAddress == {<<"a@x.com">>}

InviteOne == \E r \in OneReq, gymId \in GymIds, emails \in OneAddress :
                inviteTrainers(r, gymId, emails)
Accept == \E r \in Reqs, token \in AcceptTokens : acceptTrainerInvitation(r, token)

\* two acceptances in flight together, and an invitation
NextRace == InviteOne \/ InviteStep \/ Accept \/ AcceptStep

SpecRace == Init /\ [][NextRace]_vars

\* invitations, acceptances and listings of a trainer's gyms, one request of
\* each kind in flight
NextTrainer == InviteOne \/ InviteStep \/ AcceptSingle \/ AcceptStep \/ List

SpecTrainer == Init /\ [][NextTrainer]_vars

\* what the account routes are sent
BlankBody == [username |-> "kim", email |-> "", password |-> "q"]
AccountBodies == RegisterInputs \cup {BlankBody}
NewEmails == {"", "Kim@x.com"}
NewPasswords == {"p", "q"}

RegisterCut == \E r \in Reqs, body \in AccountBodies : RegisterFind(r, body)
RegisterStep == \E r \in Reqs : \/ RegisterCreate(r)
                                \/ \E ok \in BOOLEAN : RegisterMail(r, ok)
                                \/ RegisterRead(r)
Update == \E r \in Reqs : \/ \E tok \in PresentedTokens, email \in NewEmails :
                                StartUpdate(r, tok, email)
                          \/ UpdateSet(r)
Password == \E r \in Reqs : \/ \E tok \in PresentedTokens, old \in NewPasswords,
                                   new \in NewPasswords : StartPassword(r, tok, old, new)
                            \/ PasswordFind(r)
                            \/ PasswordSave(r)
LoginOne == \E r \in OneReq, username \in Usernames, password \in Passwords :
               StartLogin(r, username, "", password)

\* the account routes with two requests in flight, and logins one at a time
NextAccount == RegisterCut \/ RegisterStep \/ Update \/ Password \/ LoginOne \/ Generate \/ Guard

SpecAccount == Init /\ [][NextAccount]_vars

\* a session rotated while the account is updated or its password changed:
\* one session request and one account request in flight
RotateOne == \E r \in OneReq, tok \in PresentedTokens : StartRotate(r, tok)
UpdateOne == \E r \in OneReq : \/ \E tok \in PresentedTokens, email \in NewEmails :
                                     StartUpdate(r, tok, email)
                               \/ UpdateSet(r)
PasswordOne == \E r \in OneReq : \/ \E tok \in PresentedTokens, old \in NewPasswords,
                                        new \in NewPasswords : StartPassword(r, tok, old, new)
                                 \/ PasswordFind(r)
                                 \/ PasswordSave(r)

NextCredential == LoginOne \/ Generate \/ RotateOne \/ UpdateOne \/ PasswordOne \/ Tick

SpecCredential == Init /\ [][NextCredential]_vars

\* a second principal registers, logs in and calls the two trainer routes of
\* the gyms; the gyms' admin makes no request
LoginKim == \E r \in OneReq, password \in Passwords : StartLogin(r, "kim", "", password)
InviteRoute == \E r \in OneReq, tok \in PresentedTokens, gymId \in GymIds, emails \in OneAddress :
                  inviteRoute(r, tok, gymId, emails)
ListRoute == \E tok \in PresentedTokens, gymId \in GymIds : trainersRoute(tok, gymId)

NextVisitor == Register \/ LoginKim \/ Generate \/ InviteRoute \/ InviteStep \/ ListRoute

SpecVisitor == Init /\ [][NextVisitor]_vars

\* registration of a second principal, and logins of the two
NextLogin == Register \/ Login \/ Generate \/ Guard \/ Tick

SpecLogin == Init /\ [][NextLogin]_vars

\* ================================================================= claims
Stored(u) == users[u].refreshToken

\* the step that completes request r with a 200 and a new token pair
Issues(r) ==
    /\ req[r].pc = "genSave"
    /\ req'[r] = Idle
    /\ resp'.status = 200
    /\ resp'.op = req[r].op

\* C1: refreshAccessToken passes its checks only for a presented token that, when
\* the handler reads the principal's record, verifies with the refresh secret
\* (signature and expiry), names a principal that exists, and equals the refresh
\* token stored for that principal; in every other case the request ends with 401,
\* no token pair in the response and nothing written.
C1_RotateOnlyValidStored ==
    [][\A r \in Reqs, tok \in PresentedTokens :
         StartRotate(r, tok) =>
            IF tok.key = "REFRESH" /\ now < tok.iat + RefreshTTL
               /\ Exists(tok.sub) /\ Stored(tok.sub) = tok
            THEN tok \in issued /\ req'[r].op = "rotate" /\ req'[r].uid = tok.sub
            ELSE /\ req' = req /\ users' = users /\ issued' = issued
                 /\ resp' = Fail("rotate", 401, tok)]_vars

\* a rotation has succeeded and replaced the token it was presented
C1_Witness ==
    /\ resp.op = "rotate" /\ resp.status = 200
    /\ resp.pres # resp.ref
    /\ Exists(resp.uid) /\ Stored(resp.uid) = resp.ref

\* C2: a rotate call presenting a refresh token that an earlier rotate call was
\* presented and succeeded with fails with 401.
C2_SpentTokenRejected ==
    [][\A r \in Reqs, tok \in PresentedTokens :
         (StartRotate(r, tok) /\ tok \in spent) =>
            (req' = req /\ resp'.op = "rotate" /\ resp'.status = 401)]_vars

\* C3: of the rotate requests presenting one refresh token, at most one succeeds:
\* no rotate completes with a new pair for a presented token that another rotate
\* has already succeeded with and replaced in the store.
C3_OneRotationPerToken ==
    [][\A r \in Reqs :
         (Issues(r) /\ req[r].op = "rotate") =>
            ~(req[r].pres \in spent /\ Stored(req[r].uid) # req[r].pres)]_vars

\* C4: from the completion of logoutUser for a principal until a login of that
\* principal stores a token, the stored refresh token is absent and every rotate
\* naming that principal fails with 401.
C4_RevokedUntilLogin ==
    [][/\ \A u \in UserIds : (loggedOut'[u] /\ users'[u] # NoDoc) => users'[u].refreshToken = NoToken
       /\ \A r \in Reqs, tok \in PresentedTokens :
            (StartRotate(r, tok) /\ tok.sub \in UserIds /\ loggedOut[tok.sub]) =>
               (req' = req /\ resp'.status = 401)]_vars

\* C5: when a login or a rotate of a principal completes, no refresh token issued
\* to that principal before it can be used to rotate any more.
C5_EarlierTokensUnusable ==
    [][\A r \in Reqs :
         Issues(r) =>
            \A tok \in issued :
               (tok.key = "REFRESH" /\ tok.sub = req[r].uid) => users'[req[r].uid].refreshToken # tok]_vars

\* what every step StartLogin(r, ...) satisfies, whatever the credentials
LoginStep(r) ==
    /\ FreeSlot(r)
    /\ req'[r].op = "login" \/ (req' = req /\ resp'.op = "login")

\* the principal a login names by username alone or by email alone
Named(username, email) ==
    {u \in UserIds : /\ Exists(u)
                     /\ \/ (email = "" /\ username # "" /\ users[u].username = Lower(username))
                        \/ (username = "" /\ email # "" /\ users[u].email = Lower(email))}

\* what verifyJWT answers to the access token of the last response
GuardOnLastAccess == verifyJWT(resp.acc)

\* C6: loginUser by the username or by the email of a registered principal, with
\* that principal's password, passes its checks for that principal; the access
\* token its 200 response carries has that principal's id and stored username as
\* claims, and while the token is unexpired and the record exists verifyJWT
\* accepts it and attaches that same principal.
C6_LoginThenGuardSamePrincipal ==
    [][/\ \A r \in Reqs :
            LoginStep(r) =>
               \A username \in Usernames, email \in Emails, password \in Passwords :
                  \A u \in Named(username, email) :
                     (/\ users[u].password = Hash(password)
                      /\ StartLogin(r, username, email, password)) =>
                        (req'[r].op = "login" /\ req'[r].uid = u)
       /\ \A r \in Reqs :
            (Issues(r) /\ req[r].op = "login") =>
               /\ resp'.uid = req[r].uid
               /\ resp'.acc.sub = req[r].uid
               /\ resp'.acc.username = users'[req[r].uid].username
               /\ resp'.acc \in issued'
               /\ (now' < resp'.acc.iat + AccessTTL) => GuardOnLastAccess' = req[r].uid]_vars

\* the second principal has logged in by email and the guard accepts the token
C6_Witness ==
    /\ resp.op = "login" /\ resp.status = 200 /\ resp.uid = 2
    /\ resp.acc.username = "kim"
    /\ verifyJWT(resp.acc) = 2
    /\ Exists(1)

\* C7: loginUser with a non-empty password that does not match the stored hash of
\* the principal it finds ends with 401 and no token in the response, puts no
\* request in flight and leaves the store, the stored refresh token included,
\* unchanged.
C7_WrongPasswordUnauthorized ==
    [][\A r \in Reqs :
         LoginStep(r) =>
            \A username \in Usernames, email \in Emails, password \in Passwords :
               (/\ password # ""
                /\ FindUser(username, email) # 0
                /\ users[FindUser(username, email)].password # Hash(password)
                /\ StartLogin(r, username, email, password)) =>
                  /\ resp' = Fail("login", 401, NoToken)
                  /\ req' = req
                  /\ users' = users
                  /\ issued' = issued]_vars

\* a login has just failed with 401 while the principal holds a session
C7_Witness ==
    /\ resp.op = "login" /\ resp.status = 401
    /\ Exists(1) /\ Stored(1) # NoToken
    /\ \A r \in Reqs : req[r].op = "idle"

\* C8: verifyJWT answers 401 to every token that names a principal whose record
\* does not exist, a validly signed and unexpired access token issued before the
\* deletion included; a guarded operation (getCurrentUser, logoutUser) gets
\* past the guard only when the record of the principal it acts for exists.
C8_GuardNeedsLivePrincipal ==
    [][\A tok \in PresentedTokens :
         /\ getCurrentUser(tok) =>
               /\ (~Exists(tok.sub)) => resp' = Fail("current", 401, tok)
               /\ resp'.status = 200 => (Exists(tok.sub) /\ resp'.uid = tok.sub)
         /\ \A r \in Reqs :
               StartLogout(r, tok) =>
                  /\ (~Exists(tok.sub)) => (req' = req /\ resp' = Fail("logout", 401, tok))
                  /\ req'[r].op = "logout" => (Exists(tok.sub) /\ req'[r].uid = tok.sub)]_vars

\* the guard has just refused an issued, unexpired access token of a deleted principal
C8_Witness ==
    /\ resp.op = "current" /\ resp.status = 401
    /\ resp.pres \in issued /\ resp.pres.key = "ACCESS"
    /\ now < resp.pres.iat + AccessTTL
    /\ ~Exists(resp.pres.sub)

\* the access token signed in the same call as a refresh token
AccessTwin(ref) == {t \in issued : t.key = "ACCESS" /\ t.sub = ref.sub /\ t.iat = ref.iat}

\* C9: verifyJWT accepts an issued access token of an existing principal while
\* now < iat + AccessTTL and answers 401 from iat + AccessTTL on; the refresh
\* token issued with it, while now < iat + RefreshTTL and while it is the stored
\* value, still passes the checks of refreshAccessToken after the access token
\* has expired.
C9_ExpiryAtVerification ==
    [][\A tok \in issued :
         /\ (tok.key = "ACCESS" /\ getCurrentUser(tok)) =>
               /\ (now < tok.iat + AccessTTL /\ Exists(tok.sub)) =>
                     (resp'.status = 200 /\ resp'.uid = tok.sub)
               /\ (now >= tok.iat + AccessTTL) => resp' = Fail("current", 401, tok)
         /\ \A r \in Reqs :
               (/\ tok.key = "REFRESH" /\ StartRotate(r, tok)
                /\ now >= tok.iat + AccessTTL /\ now < tok.iat + RefreshTTL
                /\ Exists(tok.sub) /\ Stored(tok.sub) = tok) =>
                  (req'[r].op = "rotate" /\ req'[r].pres = tok)]_vars

\* a rotation has just succeeded with a refresh token whose access twin the guard
\* now refuses as expired
C9_Witness ==
    /\ resp.op = "rotate" /\ resp.status = 200
    /\ Exists(resp.uid)
    /\ AccessTwin(resp.pres) # {}
    /\ \A t \in AccessTwin(resp.pres) : verifyJWT(t) = 0 /\ now >= t.iat + AccessTTL

\* C10: inviteTrainers with a list of addresses for a gym id under which the
\* store holds no gym answers 404 for the whole batch: the request ends there,
\* no trainer document is created or changed, no invitation token is drawn and
\* sendEmail is not called.
C10_MissingGymFailsBatch ==
    [][\A r \in Reqs :
         FreeInv(r) =>
            \A gymId \in GymIds, emails \in Batches :
               (/\ emails # <<>>
                /\ gyms[gymId] = NoDoc
                /\ inviteTrainers(r, gymId, emails)) =>
                  /\ invResp' = InviteFail(404, gymId)
                  /\ inv' = inv
                  /\ trainers' = trainers
                  /\ nextToken' = nextToken
                  /\ mails' = mails]_vars

\* a 404 for an id of no gym, while the store holds trainers and mail has been
\* sent for earlier invitations
C10_Witness ==
    /\ invResp.status = 404
    /\ gyms[invResp.gymId] = NoDoc
    /\ \E a \in Addresses : trainers[a] # NoDoc
    /\ mails # {}
    /\ \A r \in Reqs : inv[r].pc = "idle"

\* ------------------------------------------------- claims on invitations
\* an address of the form local@domain
WellFormed(email) == email \in {"a@x.com", "b@x.com"}

\* C11: an empty or malformed address of a batch ends in the failure list and
\* gets no membership: no trainer document exists under a malformed address and
\* no success list carries one.
C11_MalformedGetsNoMembership ==
    /\ \A a \in Addresses : ~WellFormed(a) => trainers[a] = NoDoc
    /\ \A i \in 1..Len(invResp.invited) : WellFormed(invResp.invited[i].email)

\* C13: a trainer document holds at most one membership per gym (the Trainer
\* collection holds one document per email by its unique index).
C13_OneMembershipPerGym ==
    \A a \in Addresses :
       trainers[a] # NoDoc =>
          \A k, l \in 1..Len(trainers[a].gyms) :
             trainers[a].gyms[k].gymId = trainers[a].gyms[l].gymId => k = l

\* a projection without the access code of any membership and without any token value
SecretsStripped(projection) ==
    projection # NoDoc =>
       \A k \in 1..Len(projection.gyms) :
          /\ "mpin" \notin DOMAIN projection.gyms[k]
          /\ \A j \in 1..Len(projection.gyms[k].invitationTokens) :
                "token" \notin DOMAIN projection.gyms[k].invitationTokens[j]

\* C17: the trainer projections in inviteTrainers' success list and in
\* acceptTrainerInvitation's response carry no MPIN and no invitation token value.
C17_ProjectionsSecretsStripped ==
    /\ \A i \in 1..Len(invResp.invited) : SecretsStripped(invResp.invited[i])
    /\ SecretsStripped(accResp.trainer)

\* the address request r is at
Current(r) == inv[r].emails[inv[r].i]

\* the memberships of a trainer in a gym
MembershipsIn(email, gymId) ==
    IF trainers[email] = NoDoc THEN {}
    ELSE {k \in 1..Len(trainers[email].gyms) : trainers[email].gyms[k].gymId = gymId}

\* the lists of request r after a step: in its slot, or in the response that ended it
FailedAfter(r) == IF inv'[r].pc = "idle" THEN invResp'.failed ELSE inv'[r].failed
InvitedAfter(r) == IF inv'[r].pc = "idle" THEN invResp'.invited ELSE inv'[r].invited

\* C12: an address that comes again in a batch finds its membership in place;
\* whenever the (email, gym) pair an invite is at has a membership already,
\* pending or accepted, the address gets an 'already invited' failure entry and
\* no success entry, and the step changes no trainer document, draws no token
\* and sends no mail; no success list names an email twice.
C12_SecondInvitationRejected ==
    /\ [](\A r \in Reqs :
            (inv[r].pc = "find" /\ \E j \in 1..(inv[r].i - 1) : inv[r].emails[j] = Current(r))
               => MembershipsIn(Current(r), inv[r].gymId) # {})
    /\ [](\A i, j \in 1..Len(invResp.invited) :
            invResp.invited[i].email = invResp.invited[j].email => i = j)
    /\ [][\A r \in Reqs :
            (/\ inv[r].pc = "find"
             /\ MembershipsIn(Current(r), inv[r].gymId) # {}
             /\ InviteFind(r)) =>
               /\ trainers' = trainers
               /\ mails' = mails
               /\ nextToken' = nextToken
               /\ Len(FailedAfter(r)) > Len(inv[r].failed)
               /\ SubSeq(FailedAfter(r), 1, Len(inv[r].failed) + 1) =
                     Append(inv[r].failed,
                            Failure(Current(r), "Trainer already invited to this gym"))
               /\ InvitedAfter(r) = inv[r].invited]_vars

\* a batch for a gym whose invitation the trainer has accepted: both of its
\* addresses are failures, and the accepted membership is the only one in that gym
C12_Witness ==
    /\ invResp.status = 201
    /\ invResp.invited = <<>>
    /\ Len(invResp.failed) = 2
    /\ \A i \in 1..2 : invResp.failed[i] = Failure("a@x.com", "Trainer already invited to this gym")
    /\ Cardinality(MembershipsIn("a@x.com", invResp.gymId)) = 1
    /\ \A k \in MembershipsIn("a@x.com", invResp.gymId) :
          trainers["a@x.com"].gyms[k].isInvitationAccepted

\* the memberships of a trainer, <<>> while there is no document
GymsOf(email) == IF trainers[email] = NoDoc THEN <<>> ELSE trainers[email].gyms

\* the trainer's document holds a membership with this invitation token
HoldsInvitation(email, token) ==
    trainers[email] # NoDoc /\ HoldsToken(trainers[email], token)

\* C14: the upsert of an invite appends its membership to the one document of
\* the address and leaves every membership already there, and every other
\* document, as it is, whichever requests are in flight; the membership of every
\* request past its upsert, and of every mail sent, is in the document.
C14_NoAppendLost ==
    /\ [](\A r \in Reqs : inv[r].pc \in {"reload", "send"} =>
                               HoldsInvitation(Current(r), inv[r].token))
    /\ [](\A m \in mails : HoldsInvitation(m.to, m.token))
    /\ [][\A r \in Reqs :
            InviteUpsert(r) =>
               /\ trainers'[Current(r)] # NoDoc
               /\ trainers'[Current(r)].gyms =
                     Append(GymsOf(Current(r)),
                            Membership(inv[r].gymId, inv[r].gymName, inv[r].mpin,
                                       inv[r].token, inv[r].expiresAt))
               /\ \A a \in Addresses : a # Current(r) => trainers'[a] = trainers[a]]_vars

\* two requests of two gyms past their upserts for the same address together:
\* its document holds the two memberships
C14_Witness ==
    /\ \A r \in Reqs : inv[r].pc = "reload"
    /\ Current(1) = Current(2)
    /\ inv[1].gymId # inv[2].gymId
    /\ Len(GymsOf(Current(1))) = 2
    /\ \A r \in Reqs : MembershipsIn(Current(r), inv[r].gymId) # {}

\* C15: no step loses a membership or an acceptance: every membership of every
\* trainer stays at its place with its gym, and stays accepted once accepted;
\* the save of an acceptance sets the flag of the membership it read and leaves
\* the other memberships, the ones pushed since its read included, as they are;
\* the push of an invite leaves the memberships in place, flags included.
C15_InviteAcceptRaceLosesNothing ==
    [][/\ \A a \in Addresses : \A l \in 1..Len(GymsOf(a)) :
            /\ trainers'[a] # NoDoc
            /\ Len(trainers'[a].gyms) >= l
            /\ trainers'[a].gyms[l].gymId = trainers[a].gyms[l].gymId
            /\ trainers[a].gyms[l].isInvitationAccepted
                  => trainers'[a].gyms[l].isInvitationAccepted
       /\ \A r \in Reqs :
            (acpt[r].pc = "save" /\ AcceptSave(r) /\ acpt'[r].pc = "reload") =>
               /\ Len(trainers'[acpt[r].email].gyms) = Len(trainers[acpt[r].email].gyms)
               /\ trainers'[acpt[r].email].gyms[acpt[r].k].isInvitationAccepted
               /\ \A l \in 1..Len(trainers[acpt[r].email].gyms) :
                     l # acpt[r].k =>
                        trainers'[acpt[r].email].gyms[l] = trainers[acpt[r].email].gyms[l]
       /\ \A r \in Reqs :
            (inv[r].pc = "upsert" /\ InviteUpsert(r)) =>
               /\ Len(trainers'[Current(r)].gyms) = Len(GymsOf(Current(r))) + 1
               /\ \A l \in 1..Len(GymsOf(Current(r))) :
                     trainers'[Current(r)].gyms[l] = trainers[Current(r)].gyms[l]]_vars

\* an acceptance for one gym and an invite of another gym for the same trainer,
\* in flight together and both past their writes: one membership accepted, the
\* other appended
C15_Witness ==
    /\ acpt[1].pc = "reload"
    /\ inv[1].pc = "reload"
    /\ acpt[1].email = Current(1)
    /\ Len(GymsOf(Current(1))) = 2
    /\ trainers[Current(1)].gyms[acpt[1].k].isInvitationAccepted
    /\ trainers[Current(1)].gyms[acpt[1].k].gymId # inv[1].gymId
    /\ trainers[Current(1)].gyms[2].gymId = inv[1].gymId
    /\ ~trainers[Current(1)].gyms[2].isInvitationAccepted

\* the addresses of the batch of request r from index i on that are not blank
RestToProcess(r, i) == {j \in i..Len(inv[r].emails) : ~Blank(inv[r].emails[j])}

\* C16: when sendEmail rejects for an address, the address gets a 'failed to
\* send' entry in the failure list and none in the success list, the membership
\* pushed for it stays in its document, and the request goes on: to the next
\* address that is not blank, or to the 201 response when there is none.
C16_NotifierFailureIsPartial ==
    [][\A r \in Reqs :
         (inv[r].pc = "send" /\ InviteSend(r, FALSE)) =>
            /\ trainers' = trainers
            /\ HoldsInvitation(Current(r), inv[r].token)
            /\ InvitedAfter(r) = inv[r].invited
            /\ Len(FailedAfter(r)) > Len(inv[r].failed)
            /\ SubSeq(FailedAfter(r), 1, Len(inv[r].failed) + 1) =
                  Append(inv[r].failed,
                         Failure(Current(r), "Failed to send invitation email"))
            /\ IF RestToProcess(r, inv[r].i + 1) = {}
               THEN inv'[r].pc = "idle" /\ invResp'.status = 201
               ELSE /\ inv'[r].pc = "find"
                    /\ inv'[r].i \in RestToProcess(r, inv[r].i + 1)
                    /\ \A j \in RestToProcess(r, inv[r].i + 1) : inv'[r].i <= j]_vars

\* a batch whose first address failed at the Notifier and whose last was
\* delivered: the first has its membership and a failure entry
C16_Witness ==
    /\ invResp.status = 201
    /\ Len(invResp.failed) >= 1
    /\ invResp.failed[1] = Failure("a@x.com", "Failed to send invitation email")
    /\ Len(invResp.invited) = 1
    /\ invResp.invited[1].email = "b@x.com"
    /\ MembershipsIn("a@x.com", invResp.gymId) # {}
    /\ \E m \in mails : m.to = "a@x.com" /\ ~m.delivered

EmailsOf(list) == [i \in 1..Len(list) |-> list[i].email]

RECURSIVE Interleaves(_, _, _, _)
\* the first n addresses are, in order, the addresses of the two lists merged:
\* each address is in exactly one of them, once
Interleaves(emails, n, a, b) ==
    IF n = 0 THEN a = <<>> /\ b = <<>>
    ELSE \/ /\ a # <<>>
            /\ a[Len(a)] = emails[n]
            /\ Interleaves(emails, n - 1, SubSeq(a, 1, Len(a) - 1), b)
         \/ /\ b # <<>>
            /\ b[Len(b)] = emails[n]
            /\ Interleaves(emails, n - 1, a, SubSeq(b, 1, Len(b) - 1))

\* the next step of the invite request in slot r
StepOf(r) == InviteFind(r) \/ InviteUpsert(r) \/ InviteReload(r) \/ InviteSend(r, TRUE)

\* C18: for an existing gym and a list of addresses inviteTrainers is not
\* rejected; while it is in flight it can take its next step (as long as the
\* model has tokens left to draw) and the addresses before the one it is at are,
\* in order and each once, in the success list or in the failure list; it ends only
\* with the 201 response, whose two lists together are the whole input list
\* (successes + failures = number of addresses).
C18_BatchCompletes ==
    /\ [](\A r \in Reqs :
            inv[r].pc # "idle" =>
               /\ inv[r].i \in 1..Len(inv[r].emails)
               /\ Interleaves(inv[r].emails, inv[r].i - 1,
                              EmailsOf(inv[r].invited), EmailsOf(inv[r].failed))
               /\ (ENABLED StepOf(r)) \/ nextToken > MaxTokens)
    /\ [][/\ \A r \in Reqs :
               FreeInv(r) =>
                  \A gymId \in GymIds, emails \in Batches :
                     (emails # <<>> /\ gyms[gymId] # NoDoc /\ inviteTrainers(r, gymId, emails))
                        => (inv'[r].pc = "find" /\ inv'[r].emails = emails)
                           \/ (inv' = inv /\ invResp'.status = 201)
          /\ \A r \in Reqs :
               (inv[r].pc # "idle" /\ inv'[r].pc = "idle") =>
                  /\ invResp'.status = 201
                  /\ Len(invResp'.invited) + Len(invResp'.failed) = Len(inv[r].emails)
                  /\ Interleaves(inv[r].emails, Len(inv[r].emails),
                                 EmailsOf(invResp'.invited), EmailsOf(invResp'.failed))]_vars

\* the response of a batch of three with one address delivered, one blank and
\* one failed at the Notifier
C18_Witness ==
    /\ invResp.status = 201
    /\ EmailsOf(invResp.invited) = <<"a@x.com">>
    /\ EmailsOf(invResp.failed) = <<" ", "b@x.com">>
    /\ \A r \in Reqs : inv[r].pc = "idle"

\* the places <<a, k, j>> at which an invitation token is stored
PlacesOf(token) ==
    {p \in Addresses \X (1..MaxTokens) \X (1..MaxTokens) :
       /\ trainers[p[1]] # NoDoc
       /\ p[2] <= Len(trainers[p[1]].gyms)
       /\ p[3] <= Len(trainers[p[1]].gyms[p[2]].invitationTokens)
       /\ trainers[p[1]].gyms[p[2]].invitationTokens[p[3]].token = token}

ExpiresAt(p) == trainers[p[1]].gyms[p[2]].invitationTokens[p[3]].expiresAt
Pending(p) == ~trainers[p[1]].gyms[p[2]].isInvitationAccepted

\* C19: acceptTrainerInvitation goes on to accept a presented token only if
\* that token is stored with an expiresAt later than now in a membership that
\* is not yet accepted, whatever else the trainer holds.
C19_OnlyOwnUnexpiredPendingToken ==
    [][\A r \in Reqs :
         FreeAcc(r) =>
            \A token \in AcceptTokens :
               (acceptTrainerInvitation(r, token) /\ acpt'[r].pc = "save") =>
                  \E p \in PlacesOf(token) : ExpiresAt(p) > day /\ Pending(p)]_vars

\* C20: an invitation token is stamped with expiresAt = the invite's day + 3;
\* presented on a day strictly before its expiresAt, for a pending membership,
\* it is accepted; presented on the day of its expiresAt or later it is
\* rejected with 400.
C20_ExpiryBoundary ==
    [][/\ \A r \in Reqs :
            (inv[r].pc = "find" /\ inv'[r].pc = "upsert") => inv'[r].expiresAt = day + 3
       /\ \A r \in Reqs :
            FreeAcc(r) =>
               \A token \in AcceptTokens :
                  acceptTrainerInvitation(r, token) =>
                     \A p \in PlacesOf(token) :
                        IF day < ExpiresAt(p)
                        THEN Pending(p) => (acpt'[r].pc = "save" /\ acpt'[r].token = token)
                        ELSE acpt' = acpt /\ accResp'.status = 400]_vars

\* ------------------------------------------------- claims on acceptance
\* C21: a membership whose acceptance flag is true holds no invitation token:
\* the save of an acceptance sets the flag of the membership that holds the
\* presented token and leaves that membership without any invitation token.
C21_AcceptedHoldsNoToken ==
    /\ [](\A a \in Addresses : \A k \in 1..Len(GymsOf(a)) :
            trainers[a].gyms[k].isInvitationAccepted
               => trainers[a].gyms[k].invitationTokens = <<>>)
    /\ [][\A r \in Reqs :
            (acpt[r].pc = "save" /\ AcceptSave(r) /\ acpt'[r].pc = "reload") =>
               /\ \E p \in PlacesOf(acpt[r].token) : p[1] = acpt[r].email /\ p[2] = acpt[r].k
               /\ trainers'[acpt[r].email].gyms[acpt[r].k].isInvitationAccepted
               /\ trainers'[acpt[r].email].gyms[acpt[r].k].invitationTokens = <<>>]_vars

\* the second of a trainer's two memberships is accepted and without token,
\* the first is pending and holds its own
C21_Witness ==
    /\ Len(GymsOf("a@x.com")) = 2
    /\ trainers["a@x.com"].gyms[2].isInvitationAccepted
    /\ trainers["a@x.com"].gyms[2].invitationTokens = <<>>
    /\ ~trainers["a@x.com"].gyms[1].isInvitationAccepted
    /\ trainers["a@x.com"].gyms[1].invitationTokens # <<>>

\* the one answer to a token that is not honoured
Refusal(token) == AcceptResponse(400, token, "Invalid or expired invitation link.", NoDoc)

\* a token generateToken has drawn that is stored nowhere and on its way nowhere
Gone(token) ==
    /\ token \in 1..(nextToken - 1)
    /\ PlacesOf(token) = {}
    /\ \A q \in Reqs : ~(inv[q].pc = "upsert" /\ inv[q].token = token)

\* C22: the save of a successful acceptance leaves the token stored nowhere,
\* and a token that is gone never comes back; every attempt with a token that
\* is stored nowhere (accepted before, or never issued) and every other attempt
\* that is refused (an expired token) ends with the same 400 'Invalid or
\* expired invitation link.' response and changes nothing.
C22_ReplayRefusedUniformly ==
    [][/\ \A r \in Reqs :
            (acpt[r].pc = "save" /\ acpt'[r].pc = "reload") => Gone(acpt[r].token)'
       /\ \A token \in 1..MaxTokens : Gone(token) => Gone(token)'
       /\ \A r \in Reqs :
            FreeAcc(r) =>
               \A token \in 1..MaxTokens :
                  acceptTrainerInvitation(r, token) =>
                     /\ PlacesOf(token) = {} => acpt' = acpt
                     /\ acpt' = acpt => (accResp' = Refusal(token) /\ trainers' = trainers)]_vars

\* the accepted token has just been presented again and refused, while the
\* trainer still holds a pending membership of another gym with a live token
C22_Witness ==
    /\ accResp = Refusal(accResp.token)
    /\ Gone(accResp.token)
    /\ \E a \in Addresses : \E k, l \in 1..Len(GymsOf(a)) :
          /\ trainers[a].gyms[k].isInvitationAccepted
          /\ ~trainers[a].gyms[l].isInvitationAccepted
          /\ \E j \in 1..Len(trainers[a].gyms[l].invitationTokens) :
                trainers[a].gyms[l].invitationTokens[j].expiresAt > day

\* C30: of the acceptances presenting one token at most one succeeds: a save
\* goes through only while the token is still stored in the membership it read,
\* and leaves it stored nowhere; no two acceptances are past their save with
\* the same token.
C30_OneAcceptancePerToken ==
    /\ [](\A r, q \in Reqs :
            (acpt[r].pc = "reload" /\ acpt[q].pc = "reload" /\ acpt[r].token = acpt[q].token)
               => r = q)
    /\ [][\A r \in Reqs :
            (acpt[r].pc = "save" /\ acpt'[r].pc = "reload") =>
               /\ HoldsInvitation(acpt[r].email, acpt[r].token)
               /\ PlacesOf(acpt[r].token)' = {}
               /\ \A q \in Reqs : (q # r /\ acpt[q].pc = "reload") => acpt[q].token # acpt[r].token]_vars

\* two acceptances read the same token; one has saved, the save of the other
\* has just failed
C30_Witness ==
    /\ accResp.status = 500
    /\ \E r \in Reqs : acpt[r].pc = "reload" /\ acpt[r].token = accResp.token
    /\ PlacesOf(accResp.token) = {}

\* --------------------------------------------- claims on the session, II
\* C26: every rotate request that does not end with a new token pair ends with
\* 401 and no token in the response, and its last step leaves the store, the
\* principal's stored refresh token included, as it was; a rotate request ends
\* in no other way.
C26_FailedRotateChangesNothing ==
    [][(resp' # resp /\ resp'.op = "rotate") =>
          /\ resp'.status \in {200, 401}
          /\ resp'.status = 401 =>
                /\ users' = users
                /\ resp'.acc = NoToken /\ resp'.ref = NoToken
                /\ issued' = issued]_vars

\* a stale refresh token of a principal has just been refused while the
\* principal holds a session under a later one
C26_Witness ==
    /\ resp.op = "rotate" /\ resp.status = 401
    /\ resp.pres \in issued /\ resp.pres.key = "REFRESH"
    /\ now < resp.pres.iat + RefreshTTL
    /\ Exists(resp.pres.sub)
    /\ Stored(resp.pres.sub) # NoToken
    /\ Stored(resp.pres.sub) # resp.pres

\* C27: from the completion of logoutUser for a principal until a login of
\* that principal completes, the principal's stored refresh token is absent,
\* whatever rotate requests are in flight.
C27_LogoutNotUndoneByRotate ==
    \A u \in UserIds : (loggedOut[u] /\ Exists(u)) => Stored(u) = NoToken

\* what the guard decides from the token, the clock and the record's existence
GuardDecision(tok) ==
    IF tok.key = "ACCESS" /\ now < tok.iat + AccessTTL /\ Exists(tok.sub) THEN tok.sub ELSE 0

\* C28: verifyJWT decides on the token's signature and expiry and on the
\* existence of the principal alone: an unexpired access token of an existing
\* principal is accepted by the guarded routes whatever refresh token is
\* stored, after a logout (none stored) and after a rotation (a later one
\* stored) included.
C28_GuardIgnoresStoredRefresh ==
    /\ [](\A tok \in issued : verifyJWT(tok) = GuardDecision(tok))
    /\ [][\A tok \in issued :
            (/\ GuardDecision(tok) # 0
             /\ \A ref \in issued : (ref.key = "REFRESH" /\ ref.iat = tok.iat)
                                         => Stored(tok.sub) # ref) =>
               /\ getCurrentUser(tok) => (resp'.status = 200 /\ resp'.uid = tok.sub)
               /\ \A r \in Reqs : StartLogout(r, tok) => req'[r].op = "logout"]_vars

\* the guard has just accepted an access token of a principal who has no
\* refresh token stored any more
C28_Witness ==
    /\ resp.op = "current" /\ resp.status = 200
    /\ resp.pres \in issued
    /\ Exists(resp.uid) /\ Stored(resp.uid) = NoToken

\* C29: an issued access token presented to refreshAccessToken is refused with
\* 401 and starts no rotation; an issued refresh token presented as bearer
\* credential is refused with 401 by verifyJWT, on getCurrentUser and on
\* logoutUser.
C29_TokenClassesApart ==
    [][\A tok \in issued :
         /\ tok.key = "ACCESS" =>
               \A r \in Reqs : StartRotate(r, tok) => (req' = req /\ resp' = Fail("rotate", 401, tok))
         /\ tok.key = "REFRESH" =>
               /\ getCurrentUser(tok) => resp' = Fail("current", 401, tok)
               /\ \A r \in Reqs : StartLogout(r, tok) =>
                                       (req' = req /\ resp' = Fail("logout", 401, tok))]_vars

\* the guard has just refused the unexpired refresh token that is stored for
\* an existing principal
C29_Witness ==
    /\ resp.op = "current" /\ resp.status = 401
    /\ resp.pres \in issued /\ resp.pres.key = "REFRESH"
    /\ now < resp.pres.iat + AccessTTL
    /\ Exists(resp.pres.sub) /\ Stored(resp.pres.sub) = resp.pres

\* ---------------------------------------------------- claims on the list
\* C23: getTrainersForGym answers 404 when no trainer holds a membership of
\* the gym; otherwise it answers 200 with one entry for each trainer that
\* holds one and for no other, each entry carrying all of that trainer's
\* memberships of the gym, in order, and no membership of another gym, and
\* no entry carrying an invitation token.
C23_ListOnlyTheGym ==
    [][\A gymId \in GymIds :
         getTrainersForGym(gymId) =>
            LET members == {a \in Addresses : MembershipsIn(a, gymId) # {}}
            IN IF members = {}
               THEN listResp'.status = 404 /\ listResp'.trainers = {}
               ELSE /\ listResp'.status = 200
                    /\ {e.email : e \in listResp'.trainers} = members
                    /\ Cardinality(listResp'.trainers) = Cardinality(members)
                    /\ \A e \in listResp'.trainers :
                          /\ Len(e.gyms) = Cardinality(MembershipsIn(e.email, gymId))
                          /\ \A k \in 1..Len(e.gyms) :
                                /\ e.gyms[k].gymId = gymId
                                /\ "invitationTokens" \notin DOMAIN e.gyms[k]
                                /\ "token" \notin DOMAIN e.gyms[k]
                                /\ \E l \in MembershipsIn(e.email, gymId) :
                                      /\ trainers[e.email].gyms[l].mpin = e.gyms[k].mpin
                                      /\ Cardinality({m \in MembershipsIn(e.email, gymId) : m <= l}) = k]_vars

\* the list of a gym with one trainer, who is a member of another gym too:
\* the entry carries the one membership of the gym asked for
C23_Witness ==
    /\ listResp.status = 200
    /\ Cardinality(listResp.trainers) = 1
    /\ \A e \in listResp.trainers :
          /\ Len(e.gyms) = 1
          /\ Len(GymsOf(e.email)) = 2
          /\ Cardinality(MembershipsIn(e.email, listResp.gymId)) = 1

\* ------------------------------------------------- claims on the accounts
\* a username or an email of the body is held by a principal already
Collides(username, email) ==
    \E u \in UserIds : /\ Exists(u)
                       /\ users[u].username = Lower(username) \/ users[u].email = Lower(email)

\* C24: no two principals share a username or an email, compared without
\* regard to case, whatever registrations and account updates are in flight;
\* a registration whose username or email is held by a principal already, at
\* its lookup or at its insert, ends with 409 and creates no record.
C24_UniqueAndConflict ==
    /\ [](\A u, v \in UserIds :
            (Exists(u) /\ Exists(v) /\ u # v) =>
               /\ Lower(users[u].username) # Lower(users[v].username)
               /\ Lower(users[u].email) # Lower(users[v].email))
    /\ [][\A r \in Reqs :
            /\ FreeAcct(r) =>
                  \A body \in AccountBodies :
                     (~EmptyField(body) /\ Collides(body.username, body.email)
                      /\ RegisterFind(r, body)) =>
                        (resp'.status = 409 /\ acct' = acct /\ users' = users)
            /\ (/\ acct[r].pc = "create"
                /\ Collides(acct[r].username, acct[r].email)
                /\ RegisterCreate(r)) =>
                  (resp'.status = 409 /\ users' = users)]_vars

PlainPasswords == {"", "p", "q"}

C31_AcceptanceMonotonic ==
    [][\A a \in Addresses : \A l \in 1..Len(GymsOf(a)) :
          trainers[a].gyms[l].isInvitationAccepted =>
             /\ trainers'[a] # NoDoc
             /\ Len(trainers'[a].gyms) >= l
             /\ trainers'[a].gyms[l].isInvitationAccepted
             /\ trainers'[a].gyms[l].gymId = trainers[a].gyms[l].gymId
             /\ trainers'[a].gyms[l].invitationTokens = trainers[a].gyms[l].invitationTokens]_vars

\* a trainer's accepted membership, after an invite of another gym has been
\* appended and that gym's trainers have been listed
C31_Witness ==
    /\ Len(GymsOf("a@x.com")) = 2
    /\ trainers["a@x.com"].gyms[1].isInvitationAccepted
    /\ trainers["a@x.com"].gyms[1].invitationTokens = <<>>
    /\ ~trainers["a@x.com"].gyms[2].isInvitationAccepted
    /\ listResp.status = 200
    /\ listResp.gymId = trainers["a@x.com"].gyms[2].gymId

\* C32: the save of an acceptance that goes through changes the membership
\* holding the presented token and nothing else: the gym, gym name and access
\* code of that membership, the other memberships of the trainer and the other
\* trainer documents are as before; an acceptance that is refused, or whose
\* save fails, and the read-back of the response change no document.
C32_AcceptTouchesOneMembership ==
    [][\A r \in Reqs :
         /\ (acpt[r].pc = "save" /\ AcceptSave(r)) =>
               IF acpt'[r].pc = "reload"
               THEN /\ \E p \in PlacesOf(acpt[r].token) :
                          p[1] = acpt[r].email /\ p[2] = acpt[r].k
                    /\ \A a \in Addresses : a # acpt[r].email => trainers'[a] = trainers[a]
                    /\ Len(trainers'[acpt[r].email].gyms) = Len(trainers[acpt[r].email].gyms)
                    /\ \A l \in 1..Len(trainers[acpt[r].email].gyms) :
                          IF l = acpt[r].k
                          THEN /\ trainers'[acpt[r].email].gyms[l].gymId
                                     = trainers[acpt[r].email].gyms[l].gymId
                               /\ trainers'[acpt[r].email].gyms[l].gymName
                                     = trainers[acpt[r].email].gyms[l].gymName
                               /\ trainers'[acpt[r].email].gyms[l].mpin
                                     = trainers[acpt[r].email].gyms[l].mpin
                          ELSE trainers'[acpt[r].email].gyms[l] = trainers[acpt[r].email].gyms[l]
               ELSE trainers' = trainers /\ accResp'.status = 500
         /\ (acpt[r].pc = "reload" /\ AcceptReload(r)) => trainers' = trainers
         /\ FreeAcc(r) =>
               \A token \in AcceptTokens :
                  acceptTrainerInvitation(r, token) => trainers' = trainers]_vars

\* the response of an acceptance of the second of a trainer's two memberships:
\* the first is pending as before
C32_Witness ==
    /\ accResp.status = 200
    /\ Len(accResp.trainer.gyms) = 2
    /\ ~accResp.trainer.gyms[1].isInvitationAccepted
    /\ accResp.trainer.gyms[2].isInvitationAccepted
    /\ HoldsInvitation(accResp.trainer.email, 1)

\* C33: a blank address is never the address a request works on and no mail
\* goes to one; for an address that has a membership of the gym already the
\* lookup's step changes no document, draws no token and sends no mail; a
\* step that changes a document, draws a token or sends a mail is the step of
\* a request at an address that is not blank and, at its lookup, not yet
\* invited to the gym.
C33_RejectedAddressNoEffect ==
    /\ [](\A r \in Reqs : inv[r].pc # "idle" => ~Blank(Current(r)))
    /\ [](\A m \in mails : ~Blank(m.to))
    /\ [][/\ \A r \in Reqs :
               (/\ inv[r].pc = "find"
                /\ HasGym(trainers[Current(r)], inv[r].gymId)
                /\ InviteFind(r)) =>
                  (trainers' = trainers /\ mails' = mails /\ nextToken' = nextToken)
          /\ (trainers' # trainers \/ mails' # mails \/ nextToken' # nextToken) =>
               \E r \in Reqs :
                  /\ inv[r].pc \in {"find", "upsert", "send"}
                  /\ inv'[r] # inv[r]
                  /\ ~Blank(Current(r))
                  /\ inv[r].pc = "find" => ~HasGym(trainers[Current(r)], inv[r].gymId)
                  /\ \A a \in Addresses : a # Current(r) => trainers'[a] = trainers[a]
                  /\ \A m \in mails' \ mails : m.to = Current(r)]_vars

\* a batch with a blank and a repeated address has ended: one mail per
\* membership, the blank and the repeated address in the failure list
C33_Witness ==
    /\ invResp.status = 201
    /\ \E i \in 1..Len(invResp.failed) : Blank(invResp.failed[i].email)
    /\ Cardinality(mails) = 2
    /\ \A a \in Addresses : Len(GymsOf(a)) <= 1
    /\ \A r \in Reqs : inv[r].pc = "idle"

\* C34: sendEmail is called by a request at its send step only, after the
\* upsert of the membership: the membership with the request's token is in
\* the document of the address then, and the message carries that token and
\* the access code and gym name stored with it.
C34_MailAfterMembership ==
    [][/\ mails' # mails => \E r \in Reqs : inv[r].pc = "send" /\ inv'[r] # inv[r]
       /\ \A r \in Reqs :
            (inv[r].pc = "send" /\ inv'[r] # inv[r]) =>
               \E p \in PlacesOf(inv[r].token) :
                  /\ p[1] = Current(r)
                  /\ trainers' = trainers
                  /\ \E ok \in BOOLEAN :
                        mails' = mails \cup
                           {[to |-> p[1],
                             gymName |-> trainers[p[1]].gyms[p[2]].gymName,
                             mpin |-> trainers[p[1]].gyms[p[2]].mpin,
                             token |-> trainers[p[1]].gyms[p[2]].invitationTokens[p[3]].token,
                             delivered |-> ok]}]_vars

\* two mails delivered to one trainer with different access codes, each with
\* the code of the membership that holds its token
C34_Witness ==
    /\ Cardinality(mails) = 2
    /\ \A m \in mails :
          /\ m.delivered /\ m.to = "a@x.com"
          /\ \E p \in PlacesOf(m.token) : trainers[p[1]].gyms[p[2]].mpin = m.mpin
    /\ \E m, n \in mails : m.mpin # n.mpin

\* C35: the token and expiresAt = day + 3 are drawn at the lookup's step; the
\* upsert appends one membership to the document of the address (the only
\* one where there was no document), pending, with the id and name of the
\* gym asked for and that one invitation token, and leaves the memberships
\* already there as they are.
C35_NewMembershipPending ==
    [][\A r \in Reqs :
         /\ (inv[r].pc = "find" /\ inv'[r].pc = "upsert") =>
               (inv'[r].expiresAt = day + 3 /\ inv'[r].token = nextToken)
         /\ (inv[r].pc = "upsert" /\ InviteUpsert(r)) =>
               LET old == GymsOf(Current(r))
                   new == trainers'[Current(r)].gyms
                   m == new[Len(new)]
               IN /\ Len(new) = Len(old) + 1
                  /\ trainers[Current(r)] = NoDoc => Len(new) = 1
                  /\ \A l \in 1..Len(old) : new[l] = old[l]
                  /\ ~m.isInvitationAccepted
                  /\ m.gymId = inv[r].gymId
                  /\ gyms[m.gymId] # NoDoc /\ m.gymName = gyms[m.gymId].name
                  /\ Len(m.invitationTokens) = 1
                  /\ m.invitationTokens[1].token = inv[r].token
                  /\ m.invitationTokens[1].expiresAt = inv[r].expiresAt]_vars

\* a pending membership pushed on a later day behind an accepted one
C35_Witness ==
    /\ Len(GymsOf("a@x.com")) = 2
    /\ trainers["a@x.com"].gyms[1].isInvitationAccepted
    /\ ~trainers["a@x.com"].gyms[2].isInvitationAccepted
    /\ Len(trainers["a@x.com"].gyms[2].invitationTokens) = 1
    /\ trainers["a@x.com"].gyms[2].invitationTokens[1].expiresAt > InvitationDays
    /\ trainers["a@x.com"].gyms[2].gymName = gyms[trainers["a@x.com"].gyms[2].gymId].name

C37_RefreshTokenKept ==
    [][\A r \in Reqs :
         (\/ acct[r].pc = "save" /\ PasswordSave(r)
          \/ acct[r].pc = "find" /\ PasswordFind(r)
          \/ acct[r].pc = "set" /\ UpdateSet(r)
          \/ FreeAcct(r) /\ acct'[r].op \in {"update", "password"}) =>
            /\ \A u \in UserIds : Exists(u) =>
                  Exists(u)' /\ users'[u].refreshToken = users[u].refreshToken
            /\ \A tok \in PresentedTokens : RotateCheck(tok)' = RotateCheck(tok)]_vars

\* the password has just been changed at a later time than the login; the
\* refresh token stored by that login is still the stored one and passes
\* the checks of a rotation
C37_Witness ==
    /\ resp = AccountReply("password", 200, 1)
    /\ users[1].password = Hash("q")
    /\ users[1].refreshToken # NoToken
    /\ users[1].refreshToken.iat < now
    /\ RotateCheck(users[1].refreshToken) = 200

\* C38: when sendVerificationEmail rejects, the request is answered with an
\* error and the step changes no document: the principal created before the
\* send is in the store under the username of the request, a login by that
\* username with the password stored for it passes the credential checks,
\* and every registration that names its username or email finds it (409).
C38_MailFailureKeepsPrincipal ==
    [][\A r \in Reqs :
         /\ (acct[r].pc = "mail" /\ RegisterMail(r, FALSE)) =>
               /\ resp' = AccountReply("register", 500, acct[r].uid)
               /\ acct'[r] = AcctIdle
               /\ users' = users
               /\ Exists(acct[r].uid)
               /\ users[acct[r].uid].username = Lower(acct[r].username)
               /\ \A username \in Usernames, password \in Passwords :
                     (/\ username = acct[r].username
                      /\ isPasswordCorrect(users[acct[r].uid], password)) =>
                        LoginCheck(username, "", password)' = 200
               /\ \A body \in AccountBodies :
                     (body.username = acct[r].username \/ body.email = acct[r].email) =>
                        (FindUser(body.username, body.email) # 0)'
         /\ FreeAcct(r) =>
               \A body \in AccountBodies :
                  (/\ ~EmptyField(body)
                   /\ FindUser(body.username, body.email) # 0
                   /\ RegisterFind(r, body)) =>
                     (resp' = AccountReply("register", 409, 0) /\ users' = users)]_vars

\* the registration of kim has just been answered 500 for its mail: the
\* principal is stored, its credentials pass the login checks and its
\* username and email are taken
C38_Witness ==
    /\ resp = AccountReply("register", 500, 2)
    /\ Exists(2)
    /\ users[2].username = "kim"
    /\ LoginCheck("kim", "", "q") = 200
    /\ FindUser("kim", "Kim@x.com") = 2

\* ------------------------------------------------ claims on the gym routes
\* C39: while no token has been issued to the admin of a gym, no trainer has
\* a membership and no listing has returned trainer data: a principal who is
\* not the admin of the gym creates no membership in it and is shown none.
C39_TrainerRoutesAdminOnly ==
    (\A t \in issued : \A g \in GymIds : gyms[g] # NoDoc => gyms[g].admin # t.sub) =>
       /\ \A a \in Addresses : trainers[a] = NoDoc
       /\ listResp.status # 200

====
